---- MODULE Spec2Model ----
(***************************************************************************)
(* Release-orchestration core of semantic-release: the gate, the planner   *)
(* (releases to add, last release, next version) and the plugin pipeline   *)
(* driven by run().                                                        *)
(***************************************************************************)
EXTENDS Integers, Sequences, FiniteSets, TLC

VARIABLES
  isCi,          \* envCi().isCi
  isPr,          \* envCi().isPr
  ciBranch,      \* envCi().branch
  noCi,          \* options.noCi
  optDryRun,     \* options.dryRun as given by the caller
  dryRun,        \* options.dryRun (the gate may force it)
  branches,      \* options.branches (classified, ordered)
  pc,            \* position of run() / of the top-level wrapper
  result,        \* what the invocation returned, or "throw"
  thrown,        \* the error that left run(): a sequence of elementary errors
  errors,        \* the `errors` array of run()
  releasesToAdd, \* the list computed by getReleasesToAdd
  idx,           \* index of the releases-to-add entry being processed
  lastRelease,   \* lastRelease of the next release
  relType,       \* the type returned by analyzeCommits
  nextRelease,   \* nextRelease of the next release
  head,          \* HEAD commit of the working copy
  localTags,     \* tags of the local repository
  remoteTags,    \* tags of the remote repository
  authAttempts,  \* number of verifyAuth calls (push dry-runs)
  remoteStatus,  \* per branch, what git reported on the local branch against its remote head
  failCalls,     \* the `errors` argument of each call of the fail step
  tagIndex,      \* the tag format, a tag name of the repository and what getTags made of it
  repo,          \* the git repository read by getTags: commits, local branch tips and tags
  config,        \* what verify(options) reads: the git repository, repositoryUrl, tagFormat
  plugins,       \* the plugins configured for each step
  calls,         \* the calls the plugins received, with what the context held
  releases,      \* the releases returned by the publish step
  env,           \* process.env: the environment variables that are read or set
  log            \* history of the plugin steps and git commands performed

vars == <<isCi, isPr, ciBranch, noCi, optDryRun, dryRun, branches, pc, result,
          thrown, errors, releasesToAdd, idx, lastRelease, relType, nextRelease,
          head, localTags, remoteTags, authAttempts, remoteStatus, failCalls,
          tagIndex, repo, config, plugins, calls, releases, env, log>>

(***************************************************************************)
(* Bounds                                                                  *)
(***************************************************************************)
\* largest number of tags in the active branch's tag list
MaxTags == 2

(***************************************************************************)
(* Versions (semver 2.0.0)                                                 *)
(***************************************************************************)
\* a version without prerelease part
V(a, b, c) == [major |-> a, minor |-> b, patch |-> c, pre |-> "", prn |-> 0]

\* a version with the prerelease part <id>.<n>
VP(a, b, c, id, n) == [major |-> a, minor |-> b, patch |-> c, pre |-> id, prn |-> n]

\* the absent value of JavaScript
Undefined == "undefined"

\* the absent version
NoVersion == [major |-> -1, minor |-> 0, patch |-> 0, pre |-> "", prn |-> 0]

\* the absent tag name
NoTag == [v |-> NoVersion, c |-> Undefined]

\* the empty record {} returned when no release is found
NoRelease == [version |-> NoVersion, gitTag |-> NoTag, gitHead |-> 0,
              channel |-> Undefined, name |-> NoTag]

\* semver.prerelease(v): truthy iff the version has a prerelease part
Prerelease(v) == v.pre # ""

\* rank of a prerelease identifier in ASCII order
PreRank(id) == CASE id = "" -> 0 [] id = "0" -> 1 [] id = "alpha" -> 2 [] id = "beta" -> 3 [] OTHER -> 4

\* semver.compare(a, b): -1, 0 or 1
SemverCompare(a, b) ==
  IF a.major # b.major THEN (IF a.major < b.major THEN -1 ELSE 1)
  ELSE IF a.minor # b.minor THEN (IF a.minor < b.minor THEN -1 ELSE 1)
  ELSE IF a.patch # b.patch THEN (IF a.patch < b.patch THEN -1 ELSE 1)
  ELSE IF Prerelease(a) /\ ~Prerelease(b) THEN -1
  ELSE IF ~Prerelease(a) /\ Prerelease(b) THEN 1
  ELSE IF PreRank(a.pre) # PreRank(b.pre)
       THEN (IF PreRank(a.pre) < PreRank(b.pre) THEN -1 ELSE 1)
  ELSE IF a.prn # b.prn THEN (IF a.prn < b.prn THEN -1 ELSE 1)
  ELSE 0

\* semver.lt(a, b)
SemverLt(a, b) == SemverCompare(a, b) = -1

\* SemverInc that keeps the components below the incremented one
SemverIncKeepingLower(v, type) ==
  CASE type = "major" -> V(v.major + 1, v.minor, v.patch)
    [] type = "minor" -> V(v.major, v.minor + 1, v.patch)
    [] OTHER -> V(v.major, v.minor, v.patch + 1)

\* semver.inc(v, type) for type in major, minor, patch, prerelease ; "x.y.(z+1)-0",
\* the prerelease increment of a version without prerelease part, is written with
\* the identifier "0"
SemverInc(v, type) ==
  CASE type = "major" ->
         IF v.minor # 0 \/ v.patch # 0 \/ ~Prerelease(v)
         THEN V(v.major + 1, 0, 0) ELSE V(v.major, 0, 0)
    [] type = "minor" ->
         IF v.patch # 0 \/ ~Prerelease(v)
         THEN V(v.major, v.minor + 1, 0) ELSE V(v.major, v.minor, 0)
    [] type = "patch" ->
         IF ~Prerelease(v)
         THEN V(v.major, v.minor, v.patch + 1) ELSE V(v.major, v.minor, v.patch)
    [] OTHER ->
         IF ~Prerelease(v)
         THEN [major |-> v.major, minor |-> v.minor, patch |-> v.patch + 1,
               pre |-> "0", prn |-> 0]
         ELSE [v EXCEPT !.prn = v.prn + 1]

\* semverDiff(a, b): the first component that differs, Undefined when a > b or a = b
SemverDiff(a, b) ==
  IF SemverCompare(a, b) = 1 THEN Undefined
  ELSE IF a.major # b.major THEN "major"
  ELSE IF a.minor # b.minor THEN "minor"
  ELSE IF a.patch # b.patch THEN "patch"
  ELSE IF a.pre # b.pre \/ a.prn # b.prn THEN "prerelease"
  ELSE Undefined

\* a semver range >=lo <hi ; hi is ignored when the range has no upper bound
Range(lo, hi, bounded) == [lo |-> lo, hi |-> hi, bounded |-> bounded]

\* semver.satisfies(v, range): a prerelease version satisfies a range only when a
\* comparator of the range carries a prerelease on the same major.minor.patch
SemverSatisfies(v, r) ==
  /\ SemverCompare(v, r.lo) >= 0
  /\ r.bounded => SemverLt(v, r.hi)
  /\ Prerelease(v) =>
       \/ Prerelease(r.lo) /\ r.lo.major = v.major /\ r.lo.minor = v.minor
            /\ r.lo.patch = v.patch
       \/ r.bounded /\ Prerelease(r.hi) /\ r.hi.major = v.major
            /\ r.hi.minor = v.minor /\ r.hi.patch = v.patch

(***************************************************************************)
(* Tags                                                                    *)
(***************************************************************************)
\* makeTag(tagFormat, version, channel): the tag name, determined by the version
\* and the channel ("@<channel>" is appended unless the channel is undefined)
MakeTag(version, channel) == [v |-> version, c |-> channel]

\* FIRST_RELEASE
FIRST_RELEASE == V(1, 0, 0)

(***************************************************************************)
(* Sequences                                                               *)
(***************************************************************************)
\* insertion of x into a list of tags sorted by version (dir = 1: ascending,
\* dir = -1: descending), after the elements that do not compare greater than x
RECURSIVE InsertByVersion(_, _, _)
InsertByVersion(s, x, dir) ==
  IF s = <<>> THEN <<x>>
  ELSE IF dir * SemverCompare(Head(s).version, x.version) > 0 THEN <<x>> \o s
  ELSE <<Head(s)>> \o InsertByVersion(Tail(s), x, dir)

\* Array.prototype.sort with semver.compare (dir = 1) or semver.rcompare (dir = -1)
\* on the versions ; the sort is stable
RECURSIVE SortByVersion(_, _)
SortByVersion(s, dir) ==
  IF s = <<>> THEN <<>>
  ELSE InsertByVersion(SortByVersion(SubSeq(s, 1, Len(s) - 1), dir), s[Len(s)], dir)

\* lodash uniq: drops the later occurrences of an element
RECURSIVE Uniq(_)
Uniq(s) ==
  IF s = <<>> THEN <<>>
  ELSE LET rest == Uniq(SubSeq(s, 1, Len(s) - 1))
       IN IF \E i \in 1..Len(rest) : rest[i] = s[Len(s)] THEN rest
          ELSE Append(rest, s[Len(s)])

\* FindIndex that falls back on the first branch when there is none
FindIndexOrFirst(bs, name) ==
  IF \E i \in 1..Len(bs) : bs[i].name = name
  THEN CHOOSE i \in 1..Len(bs) :
         bs[i].name = name /\ \A j \in 1..(i - 1) : bs[j].name # name
  ELSE 1

\* Array.prototype.findIndex on the branch names, 1-based ; 0 when there is none
FindIndex(bs, name) ==
  IF \E i \in 1..Len(bs) : bs[i].name = name
  THEN CHOOSE i \in 1..Len(bs) :
         bs[i].name = name /\ \A j \in 1..(i - 1) : bs[j].name # name
  ELSE 0

(***************************************************************************)
(* Planner                                                                 *)
(***************************************************************************)
\* LastReleaseFilter without the test of the branch type
LastReleaseFilterAnyVersion(branch, tag, hasBefore, before) ==
  ~hasBefore \/ SemverLt(tag.version, before)

\* whether getLastRelease keeps a tag: prerelease versions only on a prerelease
\* branch, and only the versions lower than `before` when it is given
LastReleaseFilter(branch, tag, hasBefore, before) ==
  /\ branch.type = "prerelease" \/ ~Prerelease(tag.version)
  /\ ~hasBefore \/ SemverLt(tag.version, before)

\* GetLastRelease that takes the lowest version
GetLastReleaseLowest(branch, hasBefore, before) ==
  LET kept == SelectSeq(branch.tags,
                LAMBDA tag : LastReleaseFilter(branch, tag, hasBefore, before))
      sorted == SortByVersion(kept, 1)
  IN IF sorted = <<>> THEN NoRelease
     ELSE [version |-> sorted[1].version, gitTag |-> sorted[1].gitTag,
           gitHead |-> sorted[1].gitHead, channel |-> sorted[1].channel,
           name |-> MakeTag(sorted[1].version, Undefined)]

\* getLastRelease(branch, {tagFormat}, logger, {before})
GetLastRelease(branch, hasBefore, before) ==
  LET kept == SelectSeq(branch.tags,
                LAMBDA tag : LastReleaseFilter(branch, tag, hasBefore, before))
      sorted == SortByVersion(kept, -1)
  IN IF sorted = <<>> THEN NoRelease
     ELSE [version |-> sorted[1].version, gitTag |-> sorted[1].gitTag,
           gitHead |-> sorted[1].gitHead, channel |-> sorted[1].channel,
           name |-> MakeTag(sorted[1].version, Undefined)]

\* HigherBranches that keeps the prerelease branches
HigherBranchesWithPrerelease(branch, bs) ==
  SubSeq(bs, FindIndex(bs, branch.name) + 1, Len(bs))

\* the branches getReleasesToAdd considers: the ones after the active branch,
\* prerelease branches excluded
HigherBranches(branch, bs) ==
  SelectSeq(SubSeq(bs, FindIndex(bs, branch.name) + 1, Len(bs)),
            LAMBDA b : b.type # "prerelease")

\* the filter of getReleasesToAdd: no tag of the branch has the version of `tag`
\* on the channel of the branch (unless that is the higher branch's channel)
NotOnBranchChannel(branch, higherBranch, tag) ==
  \A i \in 1..Len(branch.tags) :
    \/ branch.tags[i].version # tag.version
    \/ branch.tags[i].channel = higherBranch.channel
    \/ branch.tags[i].channel # branch.channel

\* ReleaseToAdd whose last release is not bounded by the version of the tag
ReleaseToAddUnbounded(branch, higherBranch, tag) ==
  LET last == GetLastRelease(branch, FALSE, NoVersion)
      type == IF last.version # NoVersion
              THEN SemverDiff(last.version, tag.version) ELSE "major"
      name == MakeTag(tag.version, Undefined)
  IN [lastRelease |-> last,
      currentRelease |-> [type |-> type, version |-> tag.version,
                          channel |-> higherBranch.channel, gitTag |-> tag.gitTag,
                          name |-> name, gitHead |-> tag.gitHead],
      nextRelease |-> [type |-> type, version |-> tag.version,
                       channel |-> branch.channel,
                       gitTag |-> MakeTag(tag.version, branch.channel),
                       name |-> name, gitHead |-> tag.gitHead]]

\* the entry built by getReleasesToAdd for one tag of a higher branch
ReleaseToAdd(branch, higherBranch, tag) ==
  LET last == GetLastRelease(branch, TRUE, tag.version)
      type == IF last.version # NoVersion
              THEN SemverDiff(last.version, tag.version) ELSE "major"
      name == MakeTag(tag.version, Undefined)
  IN [lastRelease |-> last,
      currentRelease |-> [type |-> type, version |-> tag.version,
                          channel |-> higherBranch.channel, gitTag |-> tag.gitTag,
                          name |-> name, gitHead |-> tag.gitHead],
      nextRelease |-> [type |-> type, version |-> tag.version,
                       channel |-> branch.channel,
                       gitTag |-> MakeTag(tag.version, branch.channel),
                       name |-> name, gitHead |-> tag.gitHead]]

\* the entries getReleasesToAdd builds from one higher branch
ReleasesOfHigher(branch, higherBranch) ==
  LET onChannel == Uniq(SelectSeq(branch.tags,
                     LAMBDA t : t.channel = higherBranch.channel))
      missing == SelectSeq(onChannel,
                   LAMBDA t : NotOnBranchChannel(branch, higherBranch, t))
      sorted == SortByVersion(missing, 1)
  IN [i \in 1..Len(sorted) |-> ReleaseToAdd(branch, higherBranch, sorted[i])]

\* the reduce of getReleasesToAdd over the higher branches
RECURSIVE ReduceHigher(_, _)
ReduceHigher(branch, higher) ==
  IF higher = <<>> THEN <<>>
  ELSE ReduceHigher(branch, SubSeq(higher, 1, Len(higher) - 1))
       \o ReleasesOfHigher(branch, higher[Len(higher)])

\* getReleasesToAdd(branch, {branches, tagFormat}, logger)
GetReleasesToAdd(branch, bs) == ReduceHigher(branch, HigherBranches(branch, bs))

\* GetNextVersion that bumps by the release type on every branch
GetNextVersionByTypeOnly(branch, type, last) ==
  IF last.version # NoVersion
  THEN IF branch.type = "prerelease"
       THEN [SemverInc(last.version, type) EXCEPT !.pre = branch.prerelease, !.prn = 0]
       ELSE SemverInc(last.version, type)
  ELSE IF branch.type = "prerelease"
       THEN [FIRST_RELEASE EXCEPT !.pre = branch.prerelease, !.prn = 0]
       ELSE FIRST_RELEASE

\* getNextVersion(branch, type, lastRelease, logger)
GetNextVersion(branch, type, last) ==
  IF last.version # NoVersion
  THEN IF branch.type = "prerelease"
       THEN IF Prerelease(last.version)
            THEN SemverInc(last.version, "prerelease")
            ELSE [SemverInc(last.version, type) EXCEPT !.pre = branch.prerelease,
                                                      !.prn = 0]
       ELSE SemverInc(last.version, type)
  ELSE IF branch.type = "prerelease"
       THEN [FIRST_RELEASE EXCEPT !.pre = branch.prerelease, !.prn = 0]
       ELSE FIRST_RELEASE

(***************************************************************************)
(* Tag names as texts: rendering (makeTag) and parsing (getTags), from     *)
(* sections 4.2 and 7 of the specification and the tests of getTags. A     *)
(* text is a sequence of pieces, "@" being a piece of its own.             *)
(***************************************************************************)
\* whether the text s starts with the text p
StartsWith(s, p) == Len(p) <= Len(s) /\ SubSeq(s, 1, Len(p)) = p

\* whether the text s ends with the text p
EndsWith(s, p) == Len(p) <= Len(s) /\ SubSeq(s, Len(s) - Len(p) + 1, Len(s)) = p

\* the position of the last "@" of a text, 0 when it has none
LastAt(s) ==
  IF \E i \in 1..Len(s) : s[i] = "@"
  THEN CHOOSE i \in 1..Len(s) : s[i] = "@" /\ \A j \in (i + 1)..Len(s) : s[j] # "@"
  ELSE 0

\* the texts that are valid semver versions
ValidVersionTexts == {<<"1.0.0">>, <<"2.0.0">>, <<"2.0.0", "-beta.1">>}

\* the texts found in the place of a version that are not valid semver versions
InvalidVersionTexts == {<<"2.0.x">>, <<"3.0">>}

\* semver.valid
ValidSemver(text) == text \in ValidVersionTexts

\* a tag format: the text before and the text after ${version}
TagFormat(prefix, suffix) == [prefix |-> prefix, suffix |-> suffix]

\* the tag formats: ${version}, v${version}, prefix@v${version}, and the same
\* with the suffix -bar
TagFormats ==
  {TagFormat(prefix, suffix) : prefix \in {<<>>, <<"v">>, <<"prefix", "@", "v">>},
                               suffix \in {<<>>, <<"-bar">>}}

\* the channels: none (the empty text), next, and a name that holds an "@"
ChannelTexts == {<<>>, <<"next">>, <<"a", "@", "b">>}

\* the name of the tag of a version on a channel: the format rendered with the
\* version, followed by "@<channel>" unless the channel is absent
RenderTag(format, version, channel) ==
  format.prefix \o version \o format.suffix
    \o (IF channel = <<>> THEN <<>> ELSE <<"@">> \o channel)

\* a tag name getTags drops
DroppedTag == [valid |-> FALSE, version |-> <<>>, channel |-> <<>>]

\* ParseTag that strips the channel from the last "@" of the whole name, before
\* the format is matched
ParseTagChannelFirst(format, name) ==
  LET at == LastAt(name)
      channel == IF at = 0 THEN <<>> ELSE SubSeq(name, at + 1, Len(name))
      body == IF at = 0 THEN name ELSE SubSeq(name, 1, at - 1)
  IN IF ~StartsWith(body, format.prefix) THEN DroppedTag
     ELSE LET rest == SubSeq(body, Len(format.prefix) + 1, Len(body))
              version == SubSeq(rest, 1, Len(rest) - Len(format.suffix))
          IN IF ~EndsWith(rest, format.suffix) \/ ~ValidSemver(version)
             THEN DroppedTag
             ELSE [valid |-> TRUE, version |-> version, channel |-> channel]

\* what getTags makes of a tag name: the name is matched against the format from
\* its beginning, the channel is what follows the last "@" of the rest, and the
\* text in the place of ${version} must be a valid semver ; otherwise the tag is
\* dropped
ParseTag(format, name) ==
  IF ~StartsWith(name, format.prefix) THEN DroppedTag
  ELSE LET rest == SubSeq(name, Len(format.prefix) + 1, Len(name))
           at == LastAt(rest)
           channel == IF at = 0 THEN <<>> ELSE SubSeq(rest, at + 1, Len(rest))
           body == IF at = 0 THEN rest ELSE SubSeq(rest, 1, at - 1)
           version == SubSeq(body, 1, Len(body) - Len(format.suffix))
       IN IF ~EndsWith(body, format.suffix) \/ ~ValidSemver(version)
          THEN DroppedTag
          ELSE [valid |-> TRUE, version |-> version, channel |-> channel]

\* the tag index before a tag name is looked at
NoTagIndex ==
  [tagFormat |-> TagFormat(<<"v">>, <<>>), version |-> <<>>, channel |-> <<>>,
   gitTag |-> <<>>, parsed |-> DroppedTag]

\* the repository before getTags reads one
NoRepo == [parent |-> <<>>, tips |-> <<>>, tags |-> <<>>]

\* an environment of which no variable is read
NoEnv == <<>>

\* the plugins before getConfig loads them
NoPlugins ==
  [verifyConditions |-> 0, verifyRelease |-> 0, generateNotes |-> <<>>,
   prepare |-> 0, publish |-> 0, success |-> 0]

\* what verify(options) reads
CoreConfig(isGitRepo, repositoryUrl, tagFormat) ==
  [isGitRepo |-> isGitRepo, repositoryUrl |-> repositoryUrl, tagFormat |-> tagFormat]

\* a valid configuration: the default of the invocations that do not verify one
NoConfig == CoreConfig(TRUE, "url", <<"v", "${version}">>)

(***************************************************************************)
(* Repository snapshot and configuration                                   *)
(***************************************************************************)
\* the versions that tags of the snapshot may carry
Versions == {V(1, 0, 0), V(1, 1, 0), V(2, 0, 0), VP(2, 0, 0, "beta", 1)}

\* the commit a version was released from (commits are numbered in history order)
CommitOf(v) ==
  CASE v = V(1, 0, 0) -> 1 [] v = V(1, 1, 0) -> 2
    [] v = VP(2, 0, 0, "beta", 1) -> 3 [] OTHER -> 4

\* HEAD of the active branch when the invocation starts
InitialHead == CommitOf(V(2, 0, 0)) + 1

\* the classified branches, in the order of options.branches: maintenance, release,
\* prerelease ; tags and range of the active branch come from the snapshot
BranchConfig ==
  << [name |-> "1.x", type |-> "maintenance", channel |-> "1.x",
      prerelease |-> Undefined, hasMergeRange |-> TRUE,
      mergeRange |-> Range(V(1, 0, 0), V(2, 0, 0), TRUE)],
     [name |-> "master", type |-> "release", channel |-> Undefined,
      prerelease |-> Undefined, hasMergeRange |-> FALSE,
      mergeRange |-> Range(V(1, 0, 0), V(1, 0, 0), FALSE)],
     [name |-> "next", type |-> "release", channel |-> "next",
      prerelease |-> Undefined, hasMergeRange |-> FALSE,
      mergeRange |-> Range(V(1, 0, 0), V(1, 0, 0), FALSE)],
     [name |-> "beta", type |-> "prerelease", channel |-> "beta",
      prerelease |-> "beta", hasMergeRange |-> FALSE,
      mergeRange |-> Range(V(1, 0, 0), V(1, 0, 0), FALSE)] >>

\* the names of the configured branches
BranchNames == {BranchConfig[i].name : i \in 1..Len(BranchConfig)}

\* the channels of the configured branches
Channels == {BranchConfig[i].channel : i \in 1..Len(BranchConfig)}

\* a tag of the tag index: {version, channel, gitTag, gitHead}
Tag(v, c) == [version |-> v, channel |-> c, gitTag |-> MakeTag(v, c),
              gitHead |-> CommitOf(v)]

\* the tags a snapshot may hold: a prerelease version is tagged on the channel of
\* the prerelease branch that made it
TagUniverse ==
  {t \in {Tag(v, c) : v \in Versions, c \in Channels} :
     Prerelease(t.version) => t.channel = t.version.pre}

\* the highest version among the tags T, 1.0.0 when there is none: the lower bound
\* the classifier gives to the range of a branch with these tags
RangeLow(T) ==
  IF T = {} THEN V(1, 0, 0)
  ELSE (CHOOSE t \in T : \A u \in T : SemverCompare(t.version, u.version) >= 0).version

\* the range the classifier gives to the branch `name` with tags T, the other
\* branches having no tag of their own: from the highest tagged version up to the
\* end of the bucket 1.x for the maintenance branch, up to the next major version
\* for master, without upper bound for next and beta
BranchRange(name, T) ==
  Range(RangeLow(T),
        IF name = "1.x" THEN V(2, 0, 0) ELSE SemverInc(RangeLow(T), "major"),
        name \in {"1.x", "master"})

\* position of a channel in the order in which git lists the tag names of one version
ChannelRank(c) ==
  CASE c = Undefined -> 0 [] c = "1.x" -> 1 [] c = "beta" -> 2 [] OTHER -> 3

\* whether tag a comes before tag b in a branch's tag list: by version ascending,
\* tags of one version in the order of their names
TagBefore(a, b) ==
  \/ SemverLt(a.version, b.version)
  \/ a.version = b.version /\ ChannelRank(a.channel) < ChannelRank(b.channel)

\* the tag list of a branch: the set of its tags ordered by version ascending
RECURSIVE SortTags(_)
SortTags(T) ==
  IF T = {} THEN <<>>
  ELSE LET first == CHOOSE t \in T : \A u \in T \ {t} : TagBefore(t, u)
       IN <<first>> \o SortTags(T \ {first})

\* options.branches for a snapshot: the active branch `name` has the tags T
MakeBranches(name, T) ==
  [i \in 1..Len(BranchConfig) |->
     [name |-> BranchConfig[i].name, type |-> BranchConfig[i].type,
      channel |-> BranchConfig[i].channel, prerelease |-> BranchConfig[i].prerelease,
      hasMergeRange |-> BranchConfig[i].hasMergeRange,
      mergeRange |-> BranchConfig[i].mergeRange,
      range |-> BranchRange(BranchConfig[i].name,
                            IF BranchConfig[i].name = name THEN T ELSE {}),
      tags |-> IF BranchConfig[i].name = name THEN SortTags(T) ELSE <<>>]]

\* the repository's tags as git holds them: name and commit
GitTags(T) == {[gitTag |-> t.gitTag, gitHead |-> t.gitHead] : t \in T}

\* the value of nextRelease before it is built
NoNextRelease == [type |-> Undefined, version |-> NoVersion, channel |-> Undefined,
                  gitHead |-> 0, gitTag |-> NoTag, name |-> NoTag,
                  notes |-> Undefined]

\* const branch = options.branches.find(({name}) => name === ciBranch)
Branch == branches[FindIndex(branches, ciBranch)]

(***************************************************************************)
(* Initial state: the options, the CI state and the snapshot                *)
(***************************************************************************)
Init ==
  /\ isCi \in BOOLEAN
  /\ isPr \in BOOLEAN
  /\ noCi \in BOOLEAN
  /\ optDryRun \in BOOLEAN
  /\ dryRun = optDryRun
  /\ ciBranch \in BranchNames \cup {"other"}
  /\ \E T \in SUBSET TagUniverse :
       /\ Cardinality(T) <= MaxTags
       /\ ciBranch = "other" => T = {}
       /\ branches = MakeBranches(ciBranch, T)
       /\ localTags = GitTags(T)
       /\ remoteTags = GitTags(T)
  /\ pc = "gate"
  /\ result = "none"
  /\ thrown = <<>>
  /\ errors = <<>>
  /\ releasesToAdd = <<>>
  /\ idx = 1
  /\ lastRelease = NoRelease
  /\ relType = Undefined
  /\ nextRelease = NoNextRelease
  /\ head = InitialHead
  /\ authAttempts = 0
  /\ remoteStatus = [b \in BranchNames |-> "unknown"]
  /\ failCalls = <<>>
  /\ tagIndex = NoTagIndex
  /\ repo = NoRepo
  /\ config = NoConfig
  /\ plugins = NoPlugins
  /\ calls = <<>>
  /\ releases = <<>>
  /\ env = NoEnv
  /\ log = <<>>

(***************************************************************************)
(* The pipeline: run() and the top-level wrapper                           *)
(***************************************************************************)
\* an elementary error: its code and its semanticRelease marker
Error(code, marked) == [code |-> code, semanticRelease |-> marked]

\* getError(code): an error of the core, marked semanticRelease
GetError(code) == Error(code, TRUE)

\* the errors a plugin step may raise: a marked one, a plain one, or an aggregate
\* of marked and plain ones
PluginErrors ==
  {<<Error("EPLUGIN", TRUE)>>, <<Error("Error", FALSE)>>,
   <<Error("EPLUGIN", TRUE), Error("Error", FALSE), Error("EOTHER", TRUE)>>}

\* the error of a failed git command
GitError == <<Error("git", FALSE)>>

\* an entry of the history: the step or command, the release it is for ("run" for
\* the invocation, "add" for a release to add, "next" for the next release), the
\* version, and whether it completed
Event(op, rel, version, ok) == [op |-> op, rel |-> rel, version |-> version, ok |-> ok]

\* an exception leaves run() with the error errs
Throw(errs) ==
  /\ pc' = "threw"
  /\ thrown' = errs

\* run() returns value
Return(value) ==
  /\ pc' = "done"
  /\ result' = value

\* Successor with publish called before the tag is created and pushed
SuccessorPublishBeforeTag(p, dry) ==
  CASE p = "verifyConditions" -> "eachRelease"
    [] p = "add:generateNotes" -> "add:tag"
    [] p = "add:tag" -> "add:push"
    [] p = "add:push" -> "add:addChannel"
    [] p = "add:addChannel" -> "add:success"
    [] p = "add:success" -> "eachRelease"
    [] p = "verifyRelease" -> "generateNotes"
    [] p = "generateNotes" -> IF dry THEN "done" ELSE "prepare"
    [] p = "prepare" -> "publish"
    [] p = "publish" -> "tag"
    [] p = "tag" -> "push"
    [] p = "push" -> "success"
    [] OTHER -> "done"

\* Successor with the tag created and pushed before prepare
SuccessorTagBeforePrepare(p, dry) ==
  CASE p = "verifyConditions" -> "eachRelease"
    [] p = "add:generateNotes" -> "add:tag"
    [] p = "add:tag" -> "add:push"
    [] p = "add:push" -> "add:addChannel"
    [] p = "add:addChannel" -> "add:success"
    [] p = "add:success" -> "eachRelease"
    [] p = "verifyRelease" -> "generateNotes"
    [] p = "generateNotes" -> IF dry THEN "done" ELSE "tag"
    [] p = "tag" -> "push"
    [] p = "push" -> "prepare"
    [] p = "prepare" -> "publish"
    [] p = "publish" -> "success"
    [] OTHER -> "done"

\* Successor with addChannel called before the tag of a release to add is created
SuccessorAddChannelBeforeTag(p, dry) ==
  CASE p = "verifyConditions" -> "eachRelease"
    [] p = "add:generateNotes" -> "add:addChannel"
    [] p = "add:addChannel" -> "add:tag"
    [] p = "add:tag" -> "add:push"
    [] p = "add:push" -> "add:success"
    [] p = "add:success" -> "eachRelease"
    [] p = "verifyRelease" -> "generateNotes"
    [] p = "generateNotes" -> IF dry THEN "done" ELSE "prepare"
    [] p = "prepare" -> "tag"
    [] p = "tag" -> "push"
    [] p = "push" -> "publish"
    [] p = "publish" -> "success"
    [] OTHER -> "done"

\* the step that follows the successful completion of step p in run()
Successor(p, dry) ==
  CASE p = "verifyConditions" -> "eachRelease"
    [] p = "add:generateNotes" -> "add:tag"
    [] p = "add:tag" -> "add:push"
    [] p = "add:push" -> "add:addChannel"
    [] p = "add:addChannel" -> "add:success"
    [] p = "add:success" -> "eachRelease"
    [] p = "verifyRelease" -> "generateNotes"
    [] p = "generateNotes" -> IF dry THEN "done" ELSE "prepare"
    [] p = "prepare" -> "tag"
    [] p = "tag" -> "push"
    [] p = "push" -> "publish"
    [] p = "publish" -> "success"
    [] OTHER -> "done"

\* step p completed: run() goes on with the next step, or returns true after the last
Advance(p) ==
  /\ pc' = Successor(p, dryRun)
  /\ result' = IF Successor(p, dryRun) = "done" THEN "true" ELSE result

\* ForcedDryRun with the test of noCi inverted
ForcedDryRunNoCiInverted(ci, dry, noci) == ~ci /\ ~dry /\ noci

\* whether the first gate condition holds: not in CI, no dry-run, no noCi
ForcedDryRun(ci, dry, noci) == ~ci /\ ~dry /\ ~noci

\* PrGate with the test of noCi inverted
PrGateNoCiInverted(ci, pr, noci) == ci /\ pr /\ noci

\* PrGate that never refuses a run
PrGateMissing(ci, pr, noci) == FALSE

\* whether the run is refused because it was triggered by a pull request
PrGate(ci, pr, noci) == ci /\ pr /\ ~noci

\* COMMIT_NAME and COMMIT_EMAIL of lib/definitions/constants, by their names
COMMIT_NAME == "COMMIT_NAME"
COMMIT_EMAIL == "COMMIT_EMAIL"

\* the variables that identify the author and the committer, with their defaults
IdentityDefaults ==
  [GIT_AUTHOR_NAME |-> COMMIT_NAME, GIT_AUTHOR_EMAIL |-> COMMIT_EMAIL,
   GIT_COMMITTER_NAME |-> COMMIT_NAME, GIT_COMMITTER_EMAIL |-> COMMIT_EMAIL]

\* the variables that are set whatever their value was
PromptSettings == [GIT_ASKPASS |-> "echo", GIT_TERMINAL_PROMPT |-> "0"]

\* CiEnvironment with the defaults written over the existing values
CiEnvironmentOverwriting(e) ==
  [n \in DOMAIN e \cup DOMAIN IdentityDefaults \cup DOMAIN PromptSettings |->
     IF n \in DOMAIN PromptSettings THEN PromptSettings[n]
     ELSE IF n \in DOMAIN IdentityDefaults THEN IdentityDefaults[n]
     ELSE e[n]]

\* the object assigned to process.env, lines 34-42: the defaults of the identity,
\* then the existing variables, then the two settings of the prompt (the number 0
\* is written "0")
CiEnvironment(e) ==
  [n \in DOMAIN e \cup DOMAIN IdentityDefaults \cup DOMAIN PromptSettings |->
     IF n \in DOMAIN PromptSettings THEN PromptSettings[n]
     ELSE IF n \in DOMAIN e THEN e[n]
     ELSE IdentityDefaults[n]]

\* run(), lines 27-48: force the dry-run outside CI or else set the environment of
\* git, then refuse pull requests
Gate ==
  /\ pc = "gate"
  /\ env' = IF ForcedDryRun(isCi, dryRun, noCi) THEN env ELSE CiEnvironment(env)
  /\ dryRun' = IF ForcedDryRun(isCi, dryRun, noCi) THEN TRUE ELSE dryRun
  /\ IF PrGate(isCi, isPr, noCi)
     THEN Return("undefined")
     ELSE pc' = "verify" /\ UNCHANGED result
  /\ UNCHANGED <<remoteStatus, failCalls, tagIndex, repo, config, plugins, calls, releases>>
  /\ UNCHANGED <<isCi, isPr, ciBranch, noCi, optDryRun, branches, thrown, errors,
                 releasesToAdd, idx, lastRelease, relType, nextRelease, head,
                 localTags, remoteTags, authAttempts, log>>

\* await verify(options): the configuration is valid, or an aggregate of marked
\* errors is thrown
Verify ==
  /\ pc = "verify"
  /\ \E ok \in BOOLEAN :
       IF ok THEN pc' = "findBranch" /\ UNCHANGED thrown
       ELSE Throw(<<GetError("ENOREPOURL")>>)
  /\ UNCHANGED <<remoteStatus, failCalls, tagIndex, repo, config, plugins, calls, releases, env>>
  /\ UNCHANGED <<isCi, isPr, ciBranch, noCi, optDryRun, dryRun, branches, result,
                 errors, releasesToAdd, idx, lastRelease, relType, nextRelease, head,
                 localTags, remoteTags, authAttempts, log>>

\* run(), lines 53-64: find the active branch, then resolve the repository URL
\* (getGitAuthUrl tries a push dry-run)
FindBranch ==
  /\ pc = "findBranch"
  /\ IF FindIndex(branches, ciBranch) = 0
     THEN Return("false") /\ UNCHANGED authAttempts
     ELSE /\ pc' = "verifyAuth"
          /\ authAttempts' = authAttempts + 1
          /\ UNCHANGED result
  /\ UNCHANGED <<remoteStatus, failCalls, tagIndex, repo, config, plugins, calls, releases, env>>
  /\ UNCHANGED <<isCi, isPr, ciBranch, noCi, optDryRun, dryRun, branches, thrown,
                 errors, releasesToAdd, idx, lastRelease, relType, nextRelease, head,
                 localTags, remoteTags, log>>

\* options.branch: the name of the first classified branch (get-config.js, kept for
\* backward compatibility)
OptionsBranch == branches[1].name

\* what git may report on a local branch against its remote head
RemoteStatuses == {"upToDate", "behind", "unreadable"}

\* IsBranchUpToDate that answers true when git cannot tell
IsBranchUpToDateUnlessBehind(status) ==
  IF status = "behind" THEN "false" ELSE "true"

\* isBranchUpToDate(branch): true when the remote head is in the history of the
\* local branch, false when it is not, undefined when a git command fails
IsBranchUpToDate(status) ==
  CASE status = "upToDate" -> "true" [] status = "behind" -> "false" [] OTHER -> Undefined

\* the branch whose staleness run() checks at line 69
StalenessBranch == OptionsBranch

\* run(), lines 66-80: verifyAuth ; when it fails, isBranchUpToDate(options.branch)
\* decides between a falsy return and EGITNOPERMISSION
VerifyAuth ==
  /\ pc = "verifyAuth"
  /\ authAttempts' = authAttempts + 1
  /\ \/ /\ pc' = "verifyConditions"
        /\ UNCHANGED <<result, thrown, remoteStatus>>
     \/ \E status \in [{ciBranch, StalenessBranch} -> RemoteStatuses] :
          /\ remoteStatus' = [b \in BranchNames |->
                                IF b \in DOMAIN status THEN status[b] ELSE "unknown"]
          /\ IF IsBranchUpToDate(status[StalenessBranch]) # "true"
             THEN Return("false") /\ UNCHANGED thrown
             ELSE Throw(<<GetError("EGITNOPERMISSION")>>) /\ UNCHANGED result
  /\ UNCHANGED <<failCalls, tagIndex, repo, config, plugins, calls, releases, env>>
  /\ UNCHANGED <<isCi, isPr, ciBranch, noCi, optDryRun, dryRun, branches, errors,
                 releasesToAdd, idx, lastRelease, relType, nextRelease, head,
                 localTags, remoteTags, log>>

\* PluginStep that goes on with the next step after a failure
PluginStepIgnoringFailure(p, op, rel, version) ==
  /\ pc = p
  /\ \E ok \in BOOLEAN :
       /\ log' = Append(log, Event(op, rel, version, ok))
       /\ Advance(p)
       /\ UNCHANGED thrown

\* a plugin step awaited at position p: it completes and run() goes on, or it
\* raises and the exception leaves run()
PluginStep(p, op, rel, version) ==
  /\ pc = p
  /\ \/ /\ log' = Append(log, Event(op, rel, version, TRUE))
        /\ Advance(p)
        /\ UNCHANGED thrown
     \/ \E e \in PluginErrors :
          /\ log' = Append(log, Event(op, rel, version, FALSE))
          /\ Throw(e)
          /\ UNCHANGED result

\* await tag(name, ref) at position p: git refuses a name that exists
GitTag(p, rel, version, name, ref) ==
  /\ pc = p
  /\ \E fails \in BOOLEAN :
       IF fails \/ \E t \in localTags : t.gitTag = name
       THEN /\ log' = Append(log, Event("tag", rel, version, FALSE))
            /\ Throw(GitError)
            /\ UNCHANGED <<result, localTags>>
       ELSE /\ log' = Append(log, Event("tag", rel, version, TRUE))
            /\ localTags' = localTags \cup {[gitTag |-> name, gitHead |-> ref]}
            /\ Advance(p)
            /\ UNCHANGED thrown

\* await push(repositoryUrl, branch) at position p: git push --tags
GitPush(p, rel, version) ==
  /\ pc = p
  /\ \E fails \in BOOLEAN :
       IF fails
       THEN /\ log' = Append(log, Event("push", rel, version, FALSE))
            /\ Throw(GitError)
            /\ UNCHANGED <<result, remoteTags>>
       ELSE /\ log' = Append(log, Event("push", rel, version, TRUE))
            /\ remoteTags' = remoteTags \cup localTags
            /\ Advance(p)
            /\ UNCHANGED thrown

\* await plugins.verifyConditions ; then getReleasesToAdd (lines 82-85)
VerifyConditions ==
  /\ PluginStep("verifyConditions", "verifyConditions", "run", NoVersion)
  /\ releasesToAdd' = IF pc' = "threw" THEN releasesToAdd
                      ELSE GetReleasesToAdd(Branch, branches)
  /\ UNCHANGED <<remoteStatus, failCalls, tagIndex, repo, config, plugins, calls, releases, env>>
  /\ UNCHANGED <<isCi, isPr, ciBranch, noCi, optDryRun, dryRun, branches, errors,
                 idx, lastRelease, relType, nextRelease, head, localTags, remoteTags,
                 authAttempts>>

\* the releases-to-add entry being processed
Entry == releasesToAdd[idx]

\* InMergeRange without the test
InMergeRangeAlways(version, branch) == TRUE

\* the test of line 88, negated: the branch has no merge range, or the version is
\* within it
InMergeRange(version, branch) ==
  ~branch.hasMergeRange \/ SemverSatisfies(version, branch.mergeRange)

\* pEachSeries over releasesToAdd, lines 87-93 and 111-118: start of an iteration
\* (merge-range check, getCommits), or end of the loop (aggregate of the recorded
\* errors, getLastRelease, getCommits)
EachRelease ==
  /\ pc = "eachRelease"
  /\ IF idx <= Len(releasesToAdd)
     THEN IF ~InMergeRange(Entry.nextRelease.version, Branch)
          THEN /\ errors' = Append(errors, GetError("EINVALIDLTSMERGE"))
               /\ idx' = idx + 1
               /\ UNCHANGED <<pc, thrown, lastRelease>>
          ELSE /\ pc' = "add:generateNotes"
               /\ UNCHANGED <<errors, idx, thrown, lastRelease>>
     ELSE IF Len(errors) > 0
          THEN /\ Throw(errors)
               /\ UNCHANGED <<errors, idx, lastRelease>>
          ELSE /\ lastRelease' = GetLastRelease(Branch, FALSE, NoVersion)
               /\ pc' = "analyzeCommits"
               /\ UNCHANGED <<errors, idx, thrown>>
  /\ UNCHANGED <<remoteStatus, failCalls, tagIndex, repo, config, plugins, calls, releases, env>>
  /\ UNCHANGED <<isCi, isPr, ciBranch, noCi, optDryRun, dryRun, branches, result,
                 releasesToAdd, relType, nextRelease, head, localTags, remoteTags,
                 authAttempts, log>>

\* nextRelease.notes = await plugins.generateNotes(...) for a release to add
AddGenerateNotes ==
  /\ PluginStep("add:generateNotes", "generateNotes", "add", Entry.nextRelease.version)
  /\ UNCHANGED <<remoteStatus, failCalls, tagIndex, repo, config, plugins, calls, releases, env>>
  /\ UNCHANGED <<isCi, isPr, ciBranch, noCi, optDryRun, dryRun, branches, errors,
                 releasesToAdd, idx, lastRelease, relType, nextRelease, head,
                 localTags, remoteTags, authAttempts>>

\* await tag(nextRelease.gitTag, nextRelease.gitHead) for a release to add
AddTag ==
  /\ GitTag("add:tag", "add", Entry.nextRelease.version, Entry.nextRelease.gitTag,
            Entry.nextRelease.gitHead)
  /\ UNCHANGED <<remoteStatus, failCalls, tagIndex, repo, config, plugins, calls, releases, env>>
  /\ UNCHANGED <<isCi, isPr, ciBranch, noCi, optDryRun, dryRun, branches, errors,
                 releasesToAdd, idx, lastRelease, relType, nextRelease, head,
                 remoteTags, authAttempts>>

\* await push(options.repositoryUrl, branch.name) for a release to add
AddPush ==
  /\ GitPush("add:push", "add", Entry.nextRelease.version)
  /\ UNCHANGED <<remoteStatus, failCalls, tagIndex, repo, config, plugins, calls, releases, env>>
  /\ UNCHANGED <<isCi, isPr, ciBranch, noCi, optDryRun, dryRun, branches, errors,
                 releasesToAdd, idx, lastRelease, relType, nextRelease, head,
                 localTags, authAttempts>>

\* releases: await plugins.addChannel(...) for a release to add
AddChannel ==
  /\ PluginStep("add:addChannel", "addChannel", "add", Entry.nextRelease.version)
  /\ UNCHANGED <<remoteStatus, failCalls, tagIndex, repo, config, plugins, calls, releases, env>>
  /\ UNCHANGED <<isCi, isPr, ciBranch, noCi, optDryRun, dryRun, branches, errors,
                 releasesToAdd, idx, lastRelease, relType, nextRelease, head,
                 localTags, remoteTags, authAttempts>>

\* await plugins.success(...) for a release to add ; the iteration ends
AddSuccess ==
  /\ PluginStep("add:success", "success", "add", Entry.nextRelease.version)
  /\ idx' = IF pc' = "threw" THEN idx ELSE idx + 1
  /\ UNCHANGED <<remoteStatus, failCalls, tagIndex, repo, config, plugins, calls, releases, env>>
  /\ UNCHANGED <<isCi, isPr, ciBranch, noCi, optDryRun, dryRun, branches, errors,
                 releasesToAdd, lastRelease, relType, nextRelease, head,
                 localTags, remoteTags, authAttempts>>

\* the nextRelease object built at lines 132-139
MakeNextRelease(branch, type, version, gitHead) ==
  [type |-> type, version |-> version, channel |-> branch.channel,
   gitHead |-> gitHead, gitTag |-> MakeTag(version, branch.channel),
   name |-> MakeTag(version, Undefined), notes |-> Undefined]

\* the release types analyzeCommits may return ; Undefined: no release
ReleaseTypes == {Undefined, "patch", "minor", "major"}

\* NoReleaseType without the test
NoReleaseTypeNever(type) == FALSE

\* if (!type): whether analyzeCommits found no release to make
NoReleaseType(type) == type = Undefined

\* InRange that checks the lower bound of the range only
InRangeLowerOnly(version, branch) == SemverCompare(version, branch.range.lo) >= 0

\* whether the version passes the range check of line 128
InRange(version, branch) == SemverSatisfies(version, branch.range)

\* await plugins.analyzeCommits, then lines 121-139: no release without a type,
\* getNextVersion, the range check, construction of nextRelease
AnalyzeCommits ==
  /\ pc = "analyzeCommits"
  /\ \/ \E e \in PluginErrors :
          /\ log' = Append(log, Event("analyzeCommits", "next", NoVersion, FALSE))
          /\ Throw(e)
          /\ UNCHANGED <<result, relType, nextRelease>>
     \/ \E type \in ReleaseTypes :
          /\ log' = Append(log, Event("analyzeCommits", "next", NoVersion, TRUE))
          /\ relType' = type
          /\ IF NoReleaseType(type)
             THEN Return("undefined") /\ UNCHANGED <<thrown, nextRelease>>
             ELSE LET version == GetNextVersion(Branch, type, lastRelease)
                  IN IF ~InRange(version, Branch)
                     THEN /\ Throw(<<GetError("EINVALIDNEXTVERSION")>>)
                          /\ UNCHANGED <<result, nextRelease>>
                     ELSE /\ nextRelease' = MakeNextRelease(Branch, type, version, head)
                          /\ pc' = "verifyRelease"
                          /\ UNCHANGED <<result, thrown>>
  /\ UNCHANGED <<remoteStatus, failCalls, tagIndex, repo, config, plugins, calls, releases, env>>
  /\ UNCHANGED <<isCi, isPr, ciBranch, noCi, optDryRun, dryRun, branches, errors,
                 releasesToAdd, idx, lastRelease, head, localTags, remoteTags,
                 authAttempts>>

\* await plugins.verifyRelease
VerifyRelease ==
  /\ PluginStep("verifyRelease", "verifyRelease", "next", nextRelease.version)
  /\ UNCHANGED <<remoteStatus, failCalls, tagIndex, repo, config, plugins, calls, releases, env>>
  /\ UNCHANGED <<isCi, isPr, ciBranch, noCi, optDryRun, dryRun, branches, errors,
                 releasesToAdd, idx, lastRelease, relType, nextRelease, head,
                 localTags, remoteTags, authAttempts>>

\* await plugins.generateNotes, lines 145-150: in a dry-run the notes are printed
\* and run() returns true, otherwise they are stored in nextRelease.notes
GenerateNotes ==
  /\ PluginStep("generateNotes", "generateNotes", "next", nextRelease.version)
  /\ nextRelease' = IF pc' = "threw" \/ dryRun THEN nextRelease
                    ELSE [nextRelease EXCEPT !.notes = "notes"]
  /\ UNCHANGED <<remoteStatus, failCalls, tagIndex, repo, config, plugins, calls, releases, env>>
  /\ UNCHANGED <<isCi, isPr, ciBranch, noCi, optDryRun, dryRun, branches, errors,
                 releasesToAdd, idx, lastRelease, relType, head, localTags,
                 remoteTags, authAttempts>>

\* the prepare step refreshes nextRelease.gitHead from HEAD after a plugin ran
RefreshGitHead(release, newHead) == [release EXCEPT !.gitHead = newHead]

\* await plugins.prepare: a prepare plugin may commit
Prepare ==
  /\ PluginStep("prepare", "prepare", "next", nextRelease.version)
  /\ \E commit \in BOOLEAN :
       /\ head' = IF commit /\ pc' # "threw" THEN head + 1 ELSE head
       /\ nextRelease' = IF pc' = "threw" THEN nextRelease
                         ELSE RefreshGitHead(nextRelease, head')
  /\ UNCHANGED <<remoteStatus, failCalls, tagIndex, repo, config, plugins, calls, releases, env>>
  /\ UNCHANGED <<isCi, isPr, ciBranch, noCi, optDryRun, dryRun, branches, errors,
                 releasesToAdd, idx, lastRelease, relType, localTags, remoteTags,
                 authAttempts>>

\* await tag(nextRelease.gitTag): the tag is created at HEAD
TagNext ==
  /\ GitTag("tag", "next", nextRelease.version, nextRelease.gitTag, head)
  /\ UNCHANGED <<remoteStatus, failCalls, tagIndex, repo, config, plugins, calls, releases, env>>
  /\ UNCHANGED <<isCi, isPr, ciBranch, noCi, optDryRun, dryRun, branches, errors,
                 releasesToAdd, idx, lastRelease, relType, nextRelease, head,
                 remoteTags, authAttempts>>

\* await push(options.repositoryUrl, branch.name)
PushNext ==
  /\ GitPush("push", "next", nextRelease.version)
  /\ UNCHANGED <<remoteStatus, failCalls, tagIndex, repo, config, plugins, calls, releases, env>>
  /\ UNCHANGED <<isCi, isPr, ciBranch, noCi, optDryRun, dryRun, branches, errors,
                 releasesToAdd, idx, lastRelease, relType, nextRelease, head,
                 localTags, authAttempts>>

\* const releases = await plugins.publish(...)
Publish ==
  /\ PluginStep("publish", "publish", "next", nextRelease.version)
  /\ UNCHANGED <<remoteStatus, failCalls, tagIndex, repo, config, plugins, calls, releases, env>>
  /\ UNCHANGED <<isCi, isPr, ciBranch, noCi, optDryRun, dryRun, branches, errors,
                 releasesToAdd, idx, lastRelease, relType, nextRelease, head,
                 localTags, remoteTags, authAttempts>>

\* await plugins.success(...) ; return true
Success ==
  /\ PluginStep("success", "success", "next", nextRelease.version)
  /\ UNCHANGED <<remoteStatus, failCalls, tagIndex, repo, config, plugins, calls, releases, env>>
  /\ UNCHANGED <<isCi, isPr, ciBranch, noCi, optDryRun, dryRun, branches, errors,
                 releasesToAdd, idx, lastRelease, relType, nextRelease, head,
                 localTags, remoteTags, authAttempts>>

\* MarkedErrors without the filter
MarkedErrorsUnfiltered(errs) == errs

\* extractErrors(error).filter(error => error.semanticRelease)
MarkedErrors(errs) == SelectSeq(errs, LAMBDA e : e.semanticRelease)

\* CallsFail without the test of options.dryRun
CallsFailInDryRun(dry, errs) == Len(MarkedErrors(errs)) > 0

\* whether the wrapper calls the fail step for the error errs (lines 203-205, 181-190)
CallsFail(dry, errs) == ~dry /\ Len(MarkedErrors(errs)) > 0

\* the catch of the top-level wrapper, lines 202-212: callFail unless dry-run, then
\* the error is thrown again ; an error of the fail step is only logged
Catch ==
  /\ pc = "threw"
  /\ IF CallsFail(dryRun, thrown)
     THEN /\ log' = Append(log, Event("fail", "run", NoVersion, TRUE))
          /\ failCalls' = Append(failCalls, MarkedErrors(thrown))
     ELSE UNCHANGED <<log, failCalls>>
  /\ Return("throw")
  /\ UNCHANGED <<remoteStatus, tagIndex, repo, config, plugins, calls, releases, env>>
  /\ UNCHANGED <<isCi, isPr, ciBranch, noCi, optDryRun, dryRun, branches, thrown,
                 errors, releasesToAdd, idx, lastRelease, relType, nextRelease, head,
                 localTags, remoteTags, authAttempts>>

Next ==
  \/ Gate
  \/ Verify
  \/ FindBranch
  \/ VerifyAuth
  \/ VerifyConditions
  \/ EachRelease
  \/ AddGenerateNotes
  \/ AddTag
  \/ AddPush
  \/ AddChannel
  \/ AddSuccess
  \/ AnalyzeCommits
  \/ VerifyRelease
  \/ GenerateNotes
  \/ Prepare
  \/ TagNext
  \/ PushNext
  \/ Publish
  \/ Success
  \/ Catch

Spec == Init /\ [][Next]_vars

TypeOK ==
  /\ pc \in {"gate", "verify", "findBranch", "verifyAuth", "verifyConditions",
             "eachRelease", "add:generateNotes", "add:tag", "add:push",
             "add:addChannel", "add:success", "analyzeCommits", "verifyRelease",
             "generateNotes", "prepare", "tag", "push", "publish", "success",
             "threw", "done", "getBranches", "normalized",
             "getTags", "parsed", "indexed",
             "verifyBranches", "verified", "classify",
             "verifyOptions", "getNextVersion", "versioned"}
  /\ result \in {"none", "undefined", "false", "true", "throw"}

(***************************************************************************)
(* Classification of the release branches: the computation of the ranges   *)
(* (getBranches, normalize.release), from section 4.3 of the specification *)
(* and the ranges the tests expect of it                                   *)
(***************************************************************************)
\* largest number of tags on one branch in the classification
MaxBranchTags == 2

\* the versions a branch may be tagged with in the classification
TaggedVersions == {V(1, 0, 0), V(1, 1, 0), V(2, 0, 0), V(2, 1, 0), V(3, 0, 0)}

\* the set of versions of a tag list
VersionsOf(tags) == {tags[i].version : i \in 1..Len(tags)}

\* the highest version of a set, NoVersion when it is empty
LatestVersion(vs) ==
  IF vs = {} THEN NoVersion
  ELSE CHOOSE v \in vs : \A w \in vs : SemverCompare(v, w) >= 0

\* the lowest version of a set, NoVersion when it is empty
EarliestVersion(vs) ==
  IF vs = {} THEN NoVersion
  ELSE CHOOSE v \in vs : \A w \in vs : SemverCompare(v, w) <= 0

\* Highest that ignores its second argument
HighestIgnoringBound(a, b) == IF a = NoVersion THEN b ELSE a

\* the higher of two versions, an absent one being ignored
Highest(a, b) ==
  IF a = NoVersion THEN b
  ELSE IF b = NoVersion THEN a
  ELSE IF SemverCompare(a, b) >= 0 THEN a ELSE b

\* the lower of two versions, an absent one being ignored
Lowest(a, b) ==
  IF a = NoVersion THEN b
  ELSE IF b = NoVersion THEN a
  ELSE IF SemverCompare(a, b) <= 0 THEN a ELSE b

\* the first version tagged on a branch that is tagged on none of the lower branches
FirstVersion(tags, lower) ==
  EarliestVersion({v \in VersionsOf(tags) :
                     \A i \in 1..Len(lower) : v \notin VersionsOf(lower[i].tags)})

\* the ranges of the release branches bs from the i-th on, `bound` being the upper
\* bound of the previous branch (for the first one: its latest version, or
\* FIRST_RELEASE). The lower bound of a branch is the highest of its latest
\* version and of `bound` ; its upper bound is the first version of the next
\* branch that is on no lower branch, at most the next major version ; the last
\* branch has no upper bound.
RECURSIVE NormalizeRelease(_, _, _)
NormalizeRelease(bs, i, bound) ==
  IF i > Len(bs) THEN <<>>
  ELSE LET min == Highest(LatestVersion(VersionsOf(bs[i].tags)), bound)
           last == i = Len(bs)
           upper == IF last THEN min
                    ELSE Lowest(FirstVersion(bs[i + 1].tags, SubSeq(bs, 1, i)),
                                SemverInc(min, "major"))
       IN <<[bs[i] EXCEPT !.range = Range(min, upper, ~last)]>>
          \o NormalizeRelease(bs, i + 1, upper)

\* getBranches on release branches: the classified branches with their ranges
GetBranches(bs) ==
  NormalizeRelease(bs, 1, Highest(LatestVersion(VersionsOf(bs[1].tags)), FIRST_RELEASE))

\* a release branch before the classification, with the tags getTags found
ReleaseBranch(name, channel, vs) ==
  [name |-> name, type |-> "release", channel |-> channel, prerelease |-> Undefined,
   hasMergeRange |-> FALSE, mergeRange |-> Range(FIRST_RELEASE, FIRST_RELEASE, FALSE),
   range |-> Range(FIRST_RELEASE, FIRST_RELEASE, FALSE),
   tags |-> SortTags({Tag(v, channel) : v \in vs})]

\* the tag sets a branch may have
TagSets == {vs \in SUBSET TaggedVersions : Cardinality(vs) <= MaxBranchTags}

\* the versions released on the higher branch only are higher than every version
\* of the lower branch (what the range check of run() maintains)
ReleasedInOrder(lowerVersions, higherVersions) ==
  \A v \in higherVersions \ lowerVersions :
    \A w \in lowerVersions : SemverLt(w, v)

\* the configurations classified: one release branch, or two
InitRanges ==
  /\ isCi = TRUE
  /\ isPr = FALSE
  /\ noCi = FALSE
  /\ optDryRun = FALSE
  /\ dryRun = FALSE
  /\ ciBranch = "master"
  /\ \E vs1 \in TagSets :
       \/ branches = <<ReleaseBranch("master", Undefined, vs1)>>
       \/ \E vs2 \in TagSets :
            /\ ReleasedInOrder(vs1, vs2)
            /\ branches = <<ReleaseBranch("master", Undefined, vs1),
                            ReleaseBranch("next", "next", vs2)>>
  /\ localTags = {}
  /\ remoteTags = {}
  /\ pc = "getBranches"
  /\ result = "none"
  /\ thrown = <<>>
  /\ errors = <<>>
  /\ releasesToAdd = <<>>
  /\ idx = 1
  /\ lastRelease = NoRelease
  /\ relType = Undefined
  /\ nextRelease = NoNextRelease
  /\ head = InitialHead
  /\ authAttempts = 0
  /\ remoteStatus = [b \in BranchNames |-> "unknown"]
  /\ failCalls = <<>>
  /\ tagIndex = NoTagIndex
  /\ repo = NoRepo
  /\ config = NoConfig
  /\ plugins = NoPlugins
  /\ calls = <<>>
  /\ releases = <<>>
  /\ env = NoEnv
  /\ log = <<>>

\* options.branches = await getBranches(await getTags(...))
Classify ==
  /\ pc = "getBranches"
  /\ branches' = GetBranches(branches)
  /\ pc' = "normalized"
  /\ UNCHANGED <<isCi, isPr, ciBranch, noCi, optDryRun, dryRun, result, thrown,
                 errors, releasesToAdd, idx, lastRelease, relType, nextRelease, head,
                 localTags, remoteTags, authAttempts, remoteStatus, failCalls,
                 tagIndex, repo, config, plugins, calls, releases, env, log>>

NextRanges == Classify

SpecRanges == InitRanges /\ [][NextRanges]_vars

(***************************************************************************)
(* The tag index: a tag is created in the repository, and getTags of a     *)
(* later invocation reads it back                                          *)
(***************************************************************************)
\* an invocation configured with a tag format, before any tag
InitTags ==
  /\ isCi = TRUE
  /\ isPr = FALSE
  /\ noCi = FALSE
  /\ optDryRun = FALSE
  /\ dryRun = FALSE
  /\ ciBranch = "master"
  /\ branches = <<>>
  /\ localTags = {}
  /\ remoteTags = {}
  /\ pc = "tag"
  /\ result = "none"
  /\ thrown = <<>>
  /\ errors = <<>>
  /\ releasesToAdd = <<>>
  /\ idx = 1
  /\ lastRelease = NoRelease
  /\ relType = Undefined
  /\ nextRelease = NoNextRelease
  /\ head = 1
  /\ authAttempts = 0
  /\ remoteStatus = [b \in BranchNames |-> "unknown"]
  /\ failCalls = <<>>
  /\ \E format \in TagFormats : tagIndex = [NoTagIndex EXCEPT !.tagFormat = format]
  /\ repo = NoRepo
  /\ config = NoConfig
  /\ plugins = NoPlugins
  /\ calls = <<>>
  /\ releases = <<>>
  /\ env = NoEnv
  /\ log = <<>>

\* what the tag index actions leave alone
TagIndexFrame ==
  UNCHANGED <<isCi, isPr, ciBranch, noCi, optDryRun, dryRun, branches, result, thrown,
              errors, releasesToAdd, idx, lastRelease, relType, nextRelease, head,
              localTags, remoteTags, authAttempts, remoteStatus, failCalls, repo, config, plugins, calls, releases, env, log>>

\* a release is tagged: the tag makeTag names is in the repository
TagRelease ==
  /\ pc = "tag"
  /\ \E version \in ValidVersionTexts, channel \in ChannelTexts :
       tagIndex' = [tagIndex EXCEPT
                      !.version = version, !.channel = channel,
                      !.gitTag = RenderTag(tagIndex.tagFormat, version, channel)]
  /\ pc' = "getTags"
  /\ TagIndexFrame

\* a tag made by hand is in the repository: it has the format, and a text that is
\* not a version in the place of the version
TagByHand ==
  /\ pc = "tag"
  /\ \E text \in InvalidVersionTexts, channel \in ChannelTexts :
       tagIndex' = [tagIndex EXCEPT
                      !.version = text, !.channel = channel,
                      !.gitTag = RenderTag(tagIndex.tagFormat, text, channel)]
  /\ pc' = "getTags"
  /\ TagIndexFrame

\* getTags parses the tag name
GetTags ==
  /\ pc = "getTags"
  /\ tagIndex' = [tagIndex EXCEPT !.parsed = ParseTag(tagIndex.tagFormat, tagIndex.gitTag)]
  /\ pc' = "parsed"
  /\ TagIndexFrame

NextTags ==
  \/ TagRelease
  \/ TagByHand
  \/ GetTags

SpecTags == InitTags /\ [][NextTags]_vars

(***************************************************************************)
(* The git repository and the assignment of the tags to the branches       *)
(* (getTags, section 4.2 of the specification, steps 4 and 5)              *)
(***************************************************************************)
\* largest number of tags of the repository getTags reads
MaxRepoTags == 2

\* the commits of the repository, numbered in the order of their creation
Commits == 1..3

\* the histories: the parent of each commit (0 for the first commit) ; commit 3
\* continues commit 2 or starts a second line from commit 1
Histories == {<<0, 1, 2>>, <<0, 1, 1>>}

\* the branches getTags is given
IndexedBranches == <<"master", "next">>

\* the versions of the tags of the repository ; git lists v10.0.0 before v2.0.0
RepoVersions == {V(1, 0, 0), V(2, 0, 0), V(10, 0, 0)}

\* the valid tags the repository may hold
RepoTags ==
  {[version |-> v, channel |-> c, gitTag |-> MakeTag(v, c), gitHead |-> h] :
     v \in RepoVersions, c \in {Undefined, "next"}, h \in Commits}

\* the lists of tags git may report: tags of distinct names
RECURSIVE TagLists(_)
TagLists(n) ==
  IF n = 0 THEN {<<>>}
  ELSE LET shorter == TagLists(n - 1)
       IN shorter \cup
          {Append(l, t) : l \in {x \in shorter : Len(x) = n - 1}, t \in RepoTags}

\* whether the tags of a list have distinct names
DistinctNames(l) == \A i, j \in 1..Len(l) : l[i].gitTag = l[j].gitTag => i = j

\* the tip of a local branch, 0 when the branch does not exist locally
Tip(name) ==
  IF \E i \in 1..Len(IndexedBranches) : IndexedBranches[i] = name
  THEN repo.tips[CHOOSE i \in 1..Len(IndexedBranches) : IndexedBranches[i] = name]
  ELSE 0

\* isRefExists(ref): git rev-parse --verify
IsRefExists(name) == Tip(name) # 0

\* git merge-base --is-ancestor: commit a is commit b or one of its ancestors
RECURSIVE IsAncestor(_, _)
IsAncestor(a, b) ==
  IF b = 0 THEN FALSE
  ELSE IF a = b THEN TRUE
  ELSE IsAncestor(a, repo.parent[b])

\* IsRefInHistory that does not look at the branch
IsRefInHistoryOfAnyBranch(ref, branch) == ref \in Commits

\* isRefInHistory(ref, branch)
IsRefInHistory(ref, branch) ==
  IF ~IsRefExists(branch) THEN FALSE
  ELSE IsAncestor(ref, Tip(branch))

\* the tags of a list that are in the history of a branch, in the order of the list
RECURSIVE BranchTags(_, _)
BranchTags(tags, branch) ==
  IF tags = <<>> THEN <<>>
  ELSE LET rest == BranchTags(SubSeq(tags, 1, Len(tags) - 1), branch)
           tag == tags[Len(tags)]
       IN IF IsRefInHistory(tag.gitHead, branch) THEN Append(rest, tag) ELSE rest

\* getTags({branches, tagFormat}): each branch with the tags of its history,
\* ordered by version ascending
GetTagsOfBranches(names) ==
  [i \in 1..Len(names) |->
     [name |-> names[i], tags |-> SortByVersion(BranchTags(repo.tags, names[i]), 1)]]

\* a repository, and an invocation about to index its tags
InitIndex ==
  /\ isCi = TRUE
  /\ isPr = FALSE
  /\ noCi = FALSE
  /\ optDryRun = FALSE
  /\ dryRun = FALSE
  /\ ciBranch = "master"
  /\ branches = <<>>
  /\ localTags = {}
  /\ remoteTags = {}
  /\ pc = "getTags"
  /\ result = "none"
  /\ thrown = <<>>
  /\ errors = <<>>
  /\ releasesToAdd = <<>>
  /\ idx = 1
  /\ lastRelease = NoRelease
  /\ relType = Undefined
  /\ nextRelease = NoNextRelease
  /\ head = 1
  /\ authAttempts = 0
  /\ remoteStatus = [b \in BranchNames |-> "unknown"]
  /\ failCalls = <<>>
  /\ tagIndex = NoTagIndex
  /\ \E parent \in Histories, master \in Commits, next \in {0} \cup Commits,
        tags \in TagLists(MaxRepoTags) :
       /\ DistinctNames(tags)
       /\ repo = [parent |-> parent, tips |-> <<master, next>>, tags |-> tags]
  /\ config = NoConfig
  /\ plugins = NoPlugins
  /\ calls = <<>>
  /\ releases = <<>>
  /\ env = NoEnv
  /\ log = <<>>

\* options.branches = await getBranches(await getTags(...)): the tag index
IndexTags ==
  /\ pc = "getTags"
  /\ branches' = GetTagsOfBranches(IndexedBranches)
  /\ pc' = "indexed"
  /\ UNCHANGED <<isCi, isPr, ciBranch, noCi, optDryRun, dryRun, result, thrown,
                 errors, releasesToAdd, idx, lastRelease, relType, nextRelease, head,
                 localTags, remoteTags, authAttempts, remoteStatus, failCalls,
                 tagIndex, repo, config, plugins, calls, releases, env, log>>

NextIndex == IndexTags

SpecIndex == InitIndex /\ [][NextIndex]_vars

(***************************************************************************)
(* Validation of the branch list (lib/branches/verify.js)                  *)
(***************************************************************************)
\* largest number of entries of a branch list given to the validation
MaxEntries == 3

\* an entry of the list: a falsy value ('', null, false), a truthy value that is
\* not a plain object, or a plain object with the value of its property name
BranchEntry(shape, name) == [shape |-> shape, name |-> name]

\* the values of the property name: absent, empty, blank, and three strings of
\* which "test:" is not a valid git reference
EntryNames == {Undefined, "", " ", "master", "next", "test:"}

\* the entries
BranchEntries ==
  {BranchEntry("falsy", Undefined), BranchEntry("other", Undefined)}
    \cup {BranchEntry("object", n) : n \in EntryNames}

\* the lists of at most n entries
RECURSIVE EntryLists(_)
EntryLists(n) ==
  IF n = 0 THEN {<<>>}
  ELSE LET shorter == EntryLists(n - 1)
       IN shorter \cup {Append(l, e) : l \in {x \in shorter : Len(x) = n - 1}, e \in BranchEntries}

\* isString(name) && name.trim(): a string that is not blank
IsNonBlankString(name) == name \notin {Undefined, "", " "}

\* !isPlainObject(branch) || !isString(branch.name) || !branch.name.trim()
IsInvalidBranch(entry) == entry.shape # "object" \/ ~IsNonBlankString(entry.name)

\* verifyBranchName(name): git check-ref-format refs/heads/<name>
VerifyBranchName(name) == name # "test:"

\* branch && isString(branch.name) && branch.name.trim() && !verifyBranchName(name)
IsInvalidBranchName(entry) ==
  /\ entry.shape # "falsy"
  /\ IsNonBlankString(entry.name)
  /\ ~VerifyBranchName(entry.name)

\* an error of the validation with the value it reports
VerifyError(code, detail) == [code |-> code, semanticRelease |-> TRUE, detail |-> detail]

\* the order of the default Array.prototype.sort on the names (code units)
NameRank(name) ==
  CASE name = " " -> 1 [] name = "1.x" -> 2 [] name = "2.x" -> 3 [] name = "alpha" -> 4
    [] name = "beta" -> 5 [] name = "master" -> 6 [] name = "next" -> 7 [] OTHER -> 8

\* insertion of a name into a sorted list of names, after its equals
RECURSIVE InsertName(_, _)
InsertName(s, x) ==
  IF s = <<>> THEN <<x>>
  ELSE IF NameRank(Head(s)) > NameRank(x) THEN <<x>> \o s
  ELSE <<Head(s)>> \o InsertName(Tail(s), x)

\* Array.prototype.sort() on names
RECURSIVE SortNames(_)
SortNames(s) ==
  IF s = <<>> THEN <<>>
  ELSE InsertName(SortNames(SubSeq(s, 1, Len(s) - 1)), s[Len(s)])

\* [...branches].filter(Boolean).map(({name}) => name).filter(Boolean)
RECURSIVE TruthyNames(_)
TruthyNames(bs) ==
  IF bs = <<>> THEN <<>>
  ELSE LET rest == TruthyNames(SubSeq(bs, 1, Len(bs) - 1))
           entry == bs[Len(bs)]
       IN IF entry.shape # "falsy" /\ entry.name \notin {Undefined, ""}
          THEN Append(rest, entry.name)
          ELSE rest

\* IsFirstOfRun without the comparison with the previous element
IsBeforeItsEqual(arr, i) == i < Len(arr) /\ arr[i] = arr[i + 1]

\* (val, idx, arr) => val === arr[idx + 1] && val !== arr[idx - 1]
IsFirstOfRun(arr, i) ==
  /\ i < Len(arr) /\ arr[i] = arr[i + 1]
  /\ (i > 1 => arr[i] # arr[i - 1])

\* the elements of arr at the positions from i on that pass the filter
RECURSIVE FilterRuns(_, _)
FilterRuns(arr, i) ==
  IF i > Len(arr) THEN <<>>
  ELSE (IF IsFirstOfRun(arr, i) THEN <<arr[i]>> ELSE <<>>) \o FilterRuns(arr, i + 1)

\* const duplicates (lines 16-21)
Duplicates(bs) == FilterRuns(SortNames(TruthyNames(bs)), 1)

\* the errors of the first loop (lines 10-14)
RECURSIVE InvalidBranchErrors(_)
InvalidBranchErrors(bs) ==
  IF bs = <<>> THEN <<>>
  ELSE InvalidBranchErrors(SubSeq(bs, 1, Len(bs) - 1))
         \o (IF IsInvalidBranch(bs[Len(bs)])
             THEN <<VerifyError("EINVALIDBRANCH", bs[Len(bs)])>> ELSE <<>>)

\* the errors of the second loop (lines 27-31)
RECURSIVE InvalidNameErrors(_)
InvalidNameErrors(bs) ==
  IF bs = <<>> THEN <<>>
  ELSE InvalidNameErrors(SubSeq(bs, 1, Len(bs) - 1))
         \o (IF IsInvalidBranchName(bs[Len(bs)])
             THEN <<VerifyError("EINVALIDBRANCHNAME", bs[Len(bs)].name)>> ELSE <<>>)

\* the errors collected by verify(branches)
VerifyBranchesErrors(bs) ==
  InvalidBranchErrors(bs)
    \o (IF Len(Duplicates(bs)) > 0
        THEN <<VerifyError("EDUPLICATEBRANCHES", Duplicates(bs))>> ELSE <<>>)
    \o InvalidNameErrors(bs)

\* a branch list about to be validated
InitVerify ==
  /\ isCi = TRUE
  /\ isPr = FALSE
  /\ noCi = FALSE
  /\ optDryRun = FALSE
  /\ dryRun = FALSE
  /\ ciBranch = "master"
  /\ branches \in EntryLists(MaxEntries)
  /\ localTags = {}
  /\ remoteTags = {}
  /\ pc = "verifyBranches"
  /\ result = "none"
  /\ thrown = <<>>
  /\ errors = <<>>
  /\ releasesToAdd = <<>>
  /\ idx = 1
  /\ lastRelease = NoRelease
  /\ relType = Undefined
  /\ nextRelease = NoNextRelease
  /\ head = 1
  /\ authAttempts = 0
  /\ remoteStatus = [b \in BranchNames |-> "unknown"]
  /\ failCalls = <<>>
  /\ tagIndex = NoTagIndex
  /\ repo = NoRepo
  /\ config = NoConfig
  /\ plugins = NoPlugins
  /\ calls = <<>>
  /\ releases = <<>>
  /\ env = NoEnv
  /\ log = <<>>

\* await verify(branches)
VerifyBranches ==
  /\ pc = "verifyBranches"
  /\ errors' = VerifyBranchesErrors(branches)
  /\ IF Len(errors') > 0
     THEN Throw(errors')
     ELSE pc' = "verified" /\ UNCHANGED thrown
  /\ UNCHANGED <<isCi, isPr, ciBranch, noCi, optDryRun, dryRun, branches, result,
                 releasesToAdd, idx, lastRelease, relType, nextRelease, head,
                 localTags, remoteTags, authAttempts, remoteStatus, failCalls,
                 tagIndex, repo, config, plugins, calls, releases, env, log>>

NextVerify == VerifyBranches

SpecVerify == InitVerify /\ [][NextVerify]_vars

(***************************************************************************)
(* The errors of the classification of the branches (getBranches) and of   *)
(* the verification of the options (lib/verify.js) ; the definitions of    *)
(* the three branch types are those of section 4.3 of the specification    *)
(***************************************************************************)
\* largest number of branches of a configuration given to getBranches
MaxBranches == 3

\* a configured branch: {name, range, prerelease}
BranchSpec(name, range, prerelease) ==
  [shape |-> "object", name |-> name, range |-> range, prerelease |-> prerelease]

\* the configured branches: maintenance branches (one with a range that is not the
\* one of its name), release branches, prerelease branches (with an identifier,
\* with true, with the identifier of another one, with an empty identifier), and a
\* branch whose name is not a valid git reference
BranchSpecs ==
  {BranchSpec("1.x", Undefined, Undefined), BranchSpec("2.x", Undefined, Undefined),
   BranchSpec("2.x", "1.x", Undefined),
   BranchSpec("master", Undefined, Undefined), BranchSpec("next", Undefined, Undefined),
   BranchSpec("beta", Undefined, "beta"), BranchSpec("alpha", Undefined, "true"),
   BranchSpec("alpha", Undefined, "beta"), BranchSpec("alpha", Undefined, ""),
   BranchSpec("test:", Undefined, Undefined)}

\* the lists of at most n configured branches
RECURSIVE BranchSpecLists(_)
BranchSpecLists(n) ==
  IF n = 0 THEN {<<>>}
  ELSE LET shorter == BranchSpecLists(n - 1)
       IN shorter \cup
          {Append(l, b) : l \in {x \in shorter : Len(x) = n - 1}, b \in BranchSpecs}

\* the types, in the order of Object.entries(DEFINITIONS)
BranchTypes == <<"maintenance", "prerelease", "release">>

\* whether a name has the form N.x or N.N.x
IsMaintenanceRange(name) == name \in {"1.x", "2.x"}

\* DEFINITIONS[type].filter
TypeFilter(type, branch) ==
  CASE type = "maintenance" -> IsMaintenanceRange(branch.name)
    [] type = "prerelease" -> ~IsMaintenanceRange(branch.name) /\ branch.prerelease # Undefined
    [] OTHER -> ~IsMaintenanceRange(branch.name) /\ branch.prerelease = Undefined

\* whether the type has a per-branch validator
HasBranchValidator(type) == type # "release"

\* DEFINITIONS[type].branchValidator: the range of a maintenance branch, if set,
\* is the one of its name ; the identifier of a prerelease branch is not empty
BranchValidator(type, branch) ==
  CASE type = "maintenance" -> branch.range \in {Undefined, branch.name}
    [] type = "prerelease" -> branch.prerelease # ""
    [] OTHER -> TRUE

\* normalize[type]: the range of a maintenance branch defaults to its name, the
\* identifier true of a prerelease branch stands for its name
NormalizeBranch(type, branch) ==
  CASE type = "maintenance" ->
         [branch EXCEPT !.range = IF branch.range = Undefined THEN branch.name
                                  ELSE branch.range]
    [] type = "prerelease" ->
         [branch EXCEPT !.prerelease = IF branch.prerelease = "true" THEN branch.name
                                       ELSE branch.prerelease]
    [] OTHER -> branch

\* branchesByType[type], normalised
BranchesOfType(bs, type) ==
  LET ofType == SelectSeq(bs, LAMBDA b : TypeFilter(type, b))
  IN [i \in 1..Len(ofType) |-> NormalizeBranch(type, ofType[i])]

\* largest number of release branches
MaxReleaseBranches == 7

\* BranchesValidator that accepts every set of prerelease branches
BranchesValidatorPrereleaseFree(type, bs) ==
  CASE type = "maintenance" ->
         \A i, j \in 1..Len(bs) : bs[i].range = bs[j].range => i = j
    [] type = "prerelease" -> TRUE
    [] OTHER -> Len(bs) >= 1 /\ Len(bs) <= MaxReleaseBranches

\* DEFINITIONS[type].branchesValidator: the ranges of the maintenance branches are
\* pairwise distinct, the identifiers of the prerelease branches are pairwise
\* distinct, there is at least one release branch and at most seven
BranchesValidator(type, bs) ==
  CASE type = "maintenance" ->
         \A i, j \in 1..Len(bs) : bs[i].range = bs[j].range => i = j
    [] type = "prerelease" ->
         \A i, j \in 1..Len(bs) : bs[i].prerelease = bs[j].prerelease => i = j
    [] OTHER -> Len(bs) >= 1 /\ Len(bs) <= MaxReleaseBranches

\* type.toUpperCase()
ToUpperCase(type) ==
  CASE type = "maintenance" -> "MAINTENANCE"
    [] type = "prerelease" -> "PRERELEASE"
    [] OTHER -> "RELEASE"

\* ErrorCode that gives the set of a type the code of a branch of the type
ErrorCodeOfBranch(type, suffix) == "E" \o ToUpperCase(type) \o "BRANCH"

\* the code `E${type.toUpperCase()}BRANCH` or `E${type.toUpperCase()}BRANCHES`
ErrorCode(type, suffix) == "E" \o ToUpperCase(type) \o suffix

\* the errors of one type (lines 17-27)
RECURSIVE BranchErrors(_, _)
BranchErrors(type, bs) ==
  IF bs = <<>> THEN <<>>
  ELSE BranchErrors(type, SubSeq(bs, 1, Len(bs) - 1))
         \o (IF HasBranchValidator(type) /\ ~BranchValidator(type, bs[Len(bs)])
             THEN <<VerifyError(ErrorCode(type, "BRANCH"), bs[Len(bs)])>> ELSE <<>>)

\* the errors of getBranches after verify(branches) (lines 10-30)
RECURSIVE ClassifyErrors(_, _)
ClassifyErrors(bs, t) ==
  IF t > Len(BranchTypes) THEN <<>>
  ELSE LET type == BranchTypes[t]
       IN BranchErrors(type, SelectSeq(bs, LAMBDA b : TypeFilter(type, b)))
            \o (IF ~BranchesValidator(type, BranchesOfType(bs, type))
                THEN <<VerifyError(ErrorCode(type, "BRANCHES"), BranchesOfType(bs, type))>>
                ELSE <<>>)
            \o ClassifyErrors(bs, t + 1)

\* a tag format as a text with the piece ${version} where the version goes
OptionTagFormats ==
  {<<"v", "${version}">>, <<"v">>, <<"${version}", "-", "${version}">>,
   <<"?", "${version}">>}

\* template(tagFormat)({version})
Template(format, version) ==
  [i \in 1..Len(format) |-> IF format[i] = "${version}" THEN version ELSE format[i]]

\* verifyTagName(name): git check-ref-format refs/tags/<name>
VerifyTagName(name) == \A i \in 1..Len(name) : name[i] \notin {"?", " "}

\* (text.match(/ /g) || []).length
CountSpaces(text) == Cardinality({i \in 1..Len(text) : text[i] = " "})

\* the configurations
CoreConfigs ==
  {CoreConfig(g, u, f) : g \in BOOLEAN, u \in {Undefined, "url"}, f \in OptionTagFormats}

\* the errors collected by verify(options) (lib/verify.js, lines 8-49)
VerifyOptionsErrors(cfg, bs) ==
  (IF ~cfg.isGitRepo THEN <<VerifyError("ENOGITREPO", Undefined)>>
   ELSE IF cfg.repositoryUrl = Undefined THEN <<VerifyError("ENOREPOURL", Undefined)>>
   ELSE <<>>)
    \o (IF ~VerifyTagName(Template(cfg.tagFormat, "0.0.0"))
        THEN <<VerifyError("EINVALIDTAGFORMAT", cfg.tagFormat)>> ELSE <<>>)
    \o (IF CountSpaces(Template(cfg.tagFormat, " ")) # 1
        THEN <<VerifyError("ETAGNOVERSION", cfg.tagFormat)>> ELSE <<>>)
    \o VerifyBranchesErrors(bs)

\* a configuration about to be read by getConfig
InitConfig ==
  /\ isCi = TRUE
  /\ isPr = FALSE
  /\ noCi = FALSE
  /\ optDryRun = FALSE
  /\ dryRun = FALSE
  /\ ciBranch = "master"
  /\ branches \in BranchSpecLists(MaxBranches)
  /\ localTags = {}
  /\ remoteTags = {}
  /\ pc = "getBranches"
  /\ result = "none"
  /\ thrown = <<>>
  /\ errors = <<>>
  /\ releasesToAdd = <<>>
  /\ idx = 1
  /\ lastRelease = NoRelease
  /\ relType = Undefined
  /\ nextRelease = NoNextRelease
  /\ head = 1
  /\ authAttempts = 0
  /\ remoteStatus = [b \in BranchNames |-> "unknown"]
  /\ failCalls = <<>>
  /\ tagIndex = NoTagIndex
  /\ repo = NoRepo
  /\ config \in CoreConfigs
  /\ plugins = NoPlugins
  /\ calls = <<>>
  /\ releases = <<>>
  /\ env = NoEnv
  /\ log = <<>>

\* what the actions on the configuration leave alone
ConfigFrame ==
  UNCHANGED <<isCi, isPr, ciBranch, noCi, optDryRun, dryRun, branches, result,
              releasesToAdd, idx, lastRelease, relType, nextRelease, head, localTags,
              remoteTags, authAttempts, remoteStatus, failCalls, tagIndex, repo,
              config, plugins, calls, releases, env, log>>

\* getBranches, line 8: await verify(branches)
GetBranchesVerify ==
  /\ pc = "getBranches"
  /\ errors' = VerifyBranchesErrors(branches)
  /\ IF Len(errors') > 0
     THEN Throw(errors')
     ELSE pc' = "classify" /\ UNCHANGED thrown
  /\ ConfigFrame

\* getBranches, lines 10-36: the validators of the three types
GetBranchesClassify ==
  /\ pc = "classify"
  /\ errors' = ClassifyErrors(branches, 1)
  /\ IF Len(errors') > 0
     THEN Throw(errors')
     ELSE pc' = "verifyOptions" /\ UNCHANGED thrown
  /\ ConfigFrame

\* run(), line 51: await verify(options)
VerifyOptions ==
  /\ pc = "verifyOptions"
  /\ errors' = VerifyOptionsErrors(config, branches)
  /\ IF Len(errors') > 0
     THEN Throw(errors')
     ELSE pc' = "findBranch" /\ UNCHANGED thrown
  /\ ConfigFrame

NextConfig ==
  \/ GetBranchesVerify
  \/ GetBranchesClassify
  \/ VerifyOptions

SpecConfig == InitConfig /\ [][NextConfig]_vars

(***************************************************************************)
(* The next version (lib/get-next-version.js) on the last releases that    *)
(* getLastRelease can return                                               *)
(***************************************************************************)
\* the branches getNextVersion is called for: {name, type, prerelease}
VersionedBranches ==
  {[name |-> "1.x", type |-> "maintenance", prerelease |-> Undefined],
   [name |-> "master", type |-> "release", prerelease |-> Undefined],
   [name |-> "beta", type |-> "prerelease", prerelease |-> "beta"],
   [name |-> "alpha", type |-> "prerelease", prerelease |-> "alpha"]}

\* the versions of the last release ; the prerelease versions are those made on
\* the branches beta and alpha
LastVersions ==
  {V(1, 0, 0), V(1, 1, 0), V(1, 2, 3), V(2, 0, 0),
   VP(1, 0, 0, "beta", 1), VP(1, 1, 0, "beta", 0), VP(1, 2, 3, "beta", 1),
   VP(2, 0, 0, "beta", 3), VP(1, 0, 0, "alpha", 1), VP(1, 2, 3, "alpha", 2)}

\* the last release with a version
ReleaseOf(v) ==
  [version |-> v, gitTag |-> MakeTag(v, Undefined), gitHead |-> 1,
   channel |-> Undefined, name |-> MakeTag(v, Undefined)]

\* the types analyzeCommits returns for a release
BumpTypes == {"patch", "minor", "major"}

\* a branch, its last release and a release type, before getNextVersion ; the last
\* release of a branch that is not a prerelease branch is not a prerelease
InitNextVersion ==
  /\ isCi = TRUE
  /\ isPr = FALSE
  /\ noCi = FALSE
  /\ optDryRun = FALSE
  /\ dryRun = FALSE
  /\ \E b \in VersionedBranches :
       /\ ciBranch = b.name
       /\ branches = <<b>>
       /\ lastRelease \in {NoRelease} \cup
            {ReleaseOf(v) : v \in {w \in LastVersions :
                                     LastReleaseFilter(b, ReleaseOf(w), FALSE, NoVersion)}}
  /\ relType \in BumpTypes
  /\ localTags = {}
  /\ remoteTags = {}
  /\ pc = "getNextVersion"
  /\ result = "none"
  /\ thrown = <<>>
  /\ errors = <<>>
  /\ releasesToAdd = <<>>
  /\ idx = 1
  /\ nextRelease = NoNextRelease
  /\ head = 1
  /\ authAttempts = 0
  /\ remoteStatus = [b \in BranchNames |-> "unknown"]
  /\ failCalls = <<>>
  /\ tagIndex = NoTagIndex
  /\ repo = NoRepo
  /\ config = NoConfig
  /\ plugins = NoPlugins
  /\ calls = <<>>
  /\ releases = <<>>
  /\ env = NoEnv
  /\ log = <<>>

\* const version = getNextVersion(branch, type, lastRelease, logger)
ComputeNextVersion ==
  /\ pc = "getNextVersion"
  /\ nextRelease' = [NoNextRelease EXCEPT
                       !.type = relType,
                       !.version = GetNextVersion(Branch, relType, lastRelease)]
  /\ pc' = "versioned"
  /\ UNCHANGED <<isCi, isPr, ciBranch, noCi, optDryRun, dryRun, branches, result,
                 thrown, errors, releasesToAdd, idx, lastRelease, relType, head,
                 localTags, remoteTags, authAttempts, remoteStatus, failCalls,
                 tagIndex, repo, config, plugins, calls, releases, env, log>>

NextNextVersion == ComputeNextVersion

SpecNextVersion == InitNextVersion /\ [][NextNextVersion]_vars

(***************************************************************************)
(* The plugins of a step (lib/plugins, section 4.5 of the specification):  *)
(* run() from verifyConditions to success with every plugin call recorded  *)
(***************************************************************************)
\* largest number of plugins configured for a step
MaxPlugins == 2

\* the steps whose plugins are recorded
Steps == {"verifyConditions", "verifyRelease", "generateNotes", "prepare", "publish",
          "success"}

\* what a plugin may do when it is called: return nothing, raise an error, raise
\* an aggregate of errors, return notes, create a commit, return a release
Outcomes(step) ==
  CASE step \in {"verifyConditions", "verifyRelease"} ->
         {"resolves", "rejects", "rejectsAggregate"}
    [] step = "generateNotes" -> {"resolves", "notes"}
    [] step = "prepare" -> {"resolves", "commits", "rejects"}
    [] step = "publish" -> {"release", "rejects"}
    [] OTHER -> {"resolves", "rejects"}

\* what the n plugins of a step may do
OutcomeLists(step, n) == [1..n -> Outcomes(step)]

\* the configurations: the number of plugins of each step, and for generateNotes
\* which plugins return notes and which return undefined
PluginConfigs ==
  {[verifyConditions |-> vc, verifyRelease |-> vr, generateNotes |-> gn,
    prepare |-> pr, publish |-> pu, success |-> su] :
     vc \in 1..MaxPlugins, vr \in 1..MaxPlugins,
     gn \in UNION {OutcomeLists("generateNotes", n) : n \in 1..MaxPlugins},
     pr \in 1..MaxPlugins, pu \in 1..MaxPlugins, su \in 1..MaxPlugins}

\* an error raised by a plugin
PluginError(step, k, part, marked) ==
  [code |-> "EPLUGIN", semanticRelease |-> marked, step |-> step, plugin |-> k,
   part |-> part]

\* new AggregateError(errs)
AggregateError(errs) == [aggregate |-> errs]

\* what the k-th plugin of a step raises: an error of the semanticRelease class, or
\* an aggregate of a plain error and one of the semanticRelease class
ThrownBy(step, k, outcome) ==
  IF outcome = "rejectsAggregate"
  THEN AggregateError(<<PluginError(step, k, 1, FALSE), PluginError(step, k, 2, TRUE)>>)
  ELSE PluginError(step, k, 1, step \notin {"success", "fail"})

\* ExtractErrors that keeps an aggregate as one error
ExtractErrorsUnflattened(err) == <<err>>

\* extractErrors(err): the elements of an aggregate, or the error itself
ExtractErrors(err) ==
  IF "aggregate" \in DOMAIN err THEN err.aggregate ELSE <<err>>

\* the text a generateNotes plugin returns for the commits up to a HEAD
NotesOf(k, gitHead) == "notes " \o ToString(k) \o " of commit " \o ToString(gitHead)

\* Boolean(text): neither undefined nor the empty text
Truthy(text) == text \notin {Undefined, ""}

\* JoinNotes that does not skip the undefined outputs
JoinNotesKeepingUndefined(results) ==
  IF results = <<>> THEN ""
  ELSE LET JoinFrom[i \in 1..Len(results)] ==
             IF i = Len(results) THEN results[i]
             ELSE results[i] \o "\n\n" \o JoinFrom[i + 1]
       IN JoinFrom[1]

\* results.filter(Boolean).join('\n\n')
JoinNotes(results) ==
  LET kept == SelectSeq(results, Truthy)
  IN IF kept = <<>> THEN ""
     ELSE LET JoinFrom[i \in 1..Len(kept)] ==
                IF i = Len(kept) THEN kept[i]
                ELSE kept[i] \o "\n\n" \o JoinFrom[i + 1]
          IN JoinFrom[1]

\* the notes the next generateNotes plugin is given: the notes given to this one,
\* a blank line and the output of this one, an undefined output being skipped
NextInputNotes(notes, output) ==
  IF ~Truthy(output) THEN notes
  ELSE IF Truthy(notes) THEN notes \o "\n\n" \o output
  ELSE output

\* SettleAll of a pipeline that stops at the first error
SettleAllNever(step) == FALSE

\* whether the pipeline of a step calls every plugin and collects the errors
SettleAll(step) == step \in {"verifyConditions", "verifyRelease", "success", "fail"}

\* a call of a plugin: the step, the position of the plugin, what the context
\* held for nextRelease and releases, and what the plugin did
Call(step, k, release, rels, outcome) ==
  [step |-> step, plugin |-> k, gitHead |-> release.gitHead, notes |-> release.notes,
   releases |-> rels, did |-> outcome]

\* what a plugin returns
Output(outcome, k, gitHead) ==
  IF outcome = "notes" THEN NotesOf(k, gitHead) ELSE Undefined

\* the transform of a step: a release returned by a publish plugin gets the
\* properties of nextRelease and the name of the plugin
Transform(step, output, k, release) ==
  IF step = "publish"
  THEN [pluginName |-> k, version |-> release.version, gitTag |-> release.gitTag,
        gitHead |-> release.gitHead, channel |-> release.channel,
        notes |-> release.notes]
  ELSE output

\* the pipeline of a step before its first plugin is called: HEAD, the nextRelease
\* and the releases of the context, and nothing returned or raised yet
PipelineInput(release, rels) ==
  [calls |-> calls, head |-> head, release |-> release, releases |-> rels,
   results |-> <<>>, errors |-> <<>>, aborted |-> FALSE]

RECURSIVE Pipeline(_, _, _, _)

\* Regenerate that keeps the notes generated before the commit
RegenerateNever(st) == st

\* the prepare step after a plugin: when HEAD moved, nextRelease.gitHead is
\* refreshed and the notes are generated again
Regenerate(st) ==
  IF st.release.gitHead = st.head THEN st
  ELSE LET moved == [st EXCEPT !.release = RefreshGitHead(@, st.head),
                               !.results = <<>>]
           again == Pipeline("generateNotes", plugins.generateNotes, 1, moved)
       IN [again EXCEPT !.release = [moved.release EXCEPT
                                       !.notes = JoinNotes(again.results)],
                        !.results = st.results]

\* getNextInput of a step: the input of the next plugin
GetNextInput(step, st, output) ==
  CASE step = "generateNotes" ->
         [st EXCEPT !.release.notes = NextInputNotes(@, output)]
    [] step = "prepare" -> Regenerate(st)
    [] OTHER -> st

\* the k-th plugin of a step is called and does `outcome`
CallPlugin(step, outcome, k, st) ==
  LET called == [st EXCEPT !.calls = Append(@, Call(step, k, st.release, st.releases,
                                                      outcome)),
                           !.head = IF outcome = "commits" THEN @ + 1 ELSE @]
      output == Output(outcome, k, st.head)
  IN IF outcome \in {"rejects", "rejectsAggregate"}
     THEN IF SettleAll(step)
          THEN [called EXCEPT !.errors = @ \o ExtractErrors(ThrownBy(step, k, outcome))]
          ELSE [called EXCEPT !.errors = ExtractErrors(ThrownBy(step, k, outcome)),
                              !.aborted = TRUE]
     ELSE GetNextInput(step,
                       [called EXCEPT
                          !.results = Append(@, Transform(step, output, k, st.release))],
                       output)

\* pipeline(steps, config)(input) from the k-th plugin on: the plugins are called
\* one after the other ; an error ends the pipeline unless it settles all
Pipeline(step, what, k, st) ==
  IF k > Len(what) \/ st.aborted THEN st
  ELSE Pipeline(step, what, k + 1, CallPlugin(step, what[k], k, st))

\* whether the pipeline raises
Raises(st) == st.aborted \/ Len(st.errors) > 0

\* an invocation on master, whose last release is 1.0.0 ; the gate, the
\* verification of the options and the authentication have passed
InitPlugins ==
  /\ isCi = TRUE
  /\ isPr = FALSE
  /\ noCi = FALSE
  /\ optDryRun \in BOOLEAN
  /\ dryRun = optDryRun
  /\ ciBranch = "master"
  /\ branches = MakeBranches("master", {Tag(V(1, 0, 0), Undefined)})
  /\ localTags = GitTags({Tag(V(1, 0, 0), Undefined)})
  /\ remoteTags = GitTags({Tag(V(1, 0, 0), Undefined)})
  /\ pc = "verifyConditions"
  /\ result = "none"
  /\ thrown = <<>>
  /\ errors = <<>>
  /\ releasesToAdd = <<>>
  /\ idx = 1
  /\ lastRelease = NoRelease
  /\ relType = Undefined
  /\ nextRelease = NoNextRelease
  /\ head = InitialHead
  /\ authAttempts = 1
  /\ remoteStatus = [b \in BranchNames |-> "unknown"]
  /\ failCalls = <<>>
  /\ tagIndex = NoTagIndex
  /\ repo = NoRepo
  /\ config = NoConfig
  /\ plugins \in PluginConfigs
  /\ calls = <<>>
  /\ releases = <<>>
  /\ env = NoEnv
  /\ log = <<>>

\* what no plugin step changes
PluginsFrame ==
  UNCHANGED <<isCi, isPr, ciBranch, noCi, optDryRun, dryRun, branches, errors, idx,
              lastRelease, relType, localTags, remoteTags, authAttempts, remoteStatus,
              failCalls, tagIndex, repo, config, plugins, env>>

\* await plugins.<step>(...) at position p, the plugins doing `what`: the calls
\* are recorded, then run() goes on or the error of the pipeline leaves it
RunPipeline(p, step, st) ==
  /\ pc = p
  /\ calls' = st.calls
  /\ log' = Append(log, Event(step, "next", nextRelease.version, ~Raises(st)))
  /\ IF Raises(st)
     THEN Throw(st.errors) /\ UNCHANGED result
     ELSE Advance(p) /\ UNCHANGED thrown

\* await plugins.verifyConditions ; then getReleasesToAdd (lines 82-85)
RunVerifyConditions ==
  /\ \E what \in OutcomeLists("verifyConditions", plugins.verifyConditions) :
       RunPipeline("verifyConditions", "verifyConditions",
                   Pipeline("verifyConditions", what, 1,
                            PipelineInput(nextRelease, <<>>)))
  /\ releasesToAdd' = IF pc' = "threw" THEN releasesToAdd
                      ELSE GetReleasesToAdd(Branch, branches)
  /\ UNCHANGED <<nextRelease, head, releases>>
  /\ PluginsFrame

\* await plugins.verifyRelease (line 141)
RunVerifyRelease ==
  /\ \E what \in OutcomeLists("verifyRelease", plugins.verifyRelease) :
       RunPipeline("verifyRelease", "verifyRelease",
                   Pipeline("verifyRelease", what, 1, PipelineInput(nextRelease, <<>>)))
  /\ UNCHANGED <<nextRelease, head, releases, releasesToAdd>>
  /\ PluginsFrame

\* await plugins.generateNotes, lines 143-150: in a dry-run the notes are printed,
\* otherwise they are stored in nextRelease.notes
RunGenerateNotes ==
  /\ LET st == Pipeline("generateNotes", plugins.generateNotes, 1,
                        PipelineInput(nextRelease, <<>>))
     IN /\ RunPipeline("generateNotes", "generateNotes", st)
        /\ nextRelease' = IF dryRun THEN nextRelease
                          ELSE [nextRelease EXCEPT !.notes = JoinNotes(st.results)]
  /\ UNCHANGED <<head, releases, releasesToAdd>>
  /\ PluginsFrame

\* await plugins.prepare (line 151): a plugin may commit ; nextRelease is changed
\* in place by the pipeline
RunPrepare ==
  /\ \E what \in OutcomeLists("prepare", plugins.prepare) :
       LET st == Pipeline("prepare", what, 1, PipelineInput(nextRelease, <<>>))
       IN /\ RunPipeline("prepare", "prepare", st)
          /\ head' = st.head
          /\ nextRelease' = st.release
  /\ UNCHANGED <<releases, releasesToAdd>>
  /\ PluginsFrame

\* const releases = await plugins.publish(...) (line 158)
RunPublish ==
  /\ \E what \in OutcomeLists("publish", plugins.publish) :
       LET st == Pipeline("publish", what, 1, PipelineInput(nextRelease, <<>>))
       IN /\ RunPipeline("publish", "publish", st)
          /\ releases' = IF Raises(st) THEN releases ELSE st.results
  /\ UNCHANGED <<nextRelease, head, releasesToAdd>>
  /\ PluginsFrame

\* await plugins.success({..., nextRelease, releases}) ; return true (lines 162-164)
RunSuccess ==
  /\ \E what \in OutcomeLists("success", plugins.success) :
       RunPipeline("success", "success",
                   Pipeline("success", what, 1, PipelineInput(nextRelease, releases)))
  /\ UNCHANGED <<nextRelease, head, releases, releasesToAdd>>
  /\ PluginsFrame

NextPlugins ==
  \/ RunVerifyConditions
  \/ EachRelease
  \/ AnalyzeCommits
  \/ RunVerifyRelease
  \/ RunGenerateNotes
  \/ RunPrepare
  \/ TagNext
  \/ PushNext
  \/ RunPublish
  \/ RunSuccess
  \/ Catch

SpecPlugins == InitPlugins /\ [][NextPlugins]_vars

(***************************************************************************)
(* The URL used to push (getGitAuthUrl, lib/get-git-auth-url.js)           *)
(***************************************************************************)
\* Object.keys(GIT_TOKENS), in the order of the object literal
GIT_TOKENS ==
  <<"GIT_CREDENTIALS", "GH_TOKEN", "GITHUB_TOKEN", "GL_TOKEN", "GITLAB_TOKEN",
    "BB_TOKEN", "BITBUCKET_TOKEN">>

\* GIT_TOKENS[envVar] || ''
TokenPrefix(envVar) ==
  CASE envVar \in {"GL_TOKEN", "GITLAB_TOKEN"} -> "gitlab-ci-token:"
    [] envVar \in {"BB_TOKEN", "BITBUCKET_TOKEN"} -> "x-token-auth:"
    [] OTHER -> ""

\* the values of a credential variable: not set, set to the empty text, set to a
\* token
TokenValues(envVar) == {Undefined, "", "token-of-" \o envVar}

\* the environments getGitAuthUrl may read
TokenEnvs ==
  [GIT_CREDENTIALS : TokenValues("GIT_CREDENTIALS"), GH_TOKEN : TokenValues("GH_TOKEN"),
   GITHUB_TOKEN : TokenValues("GITHUB_TOKEN"), GL_TOKEN : TokenValues("GL_TOKEN"),
   GITLAB_TOKEN : TokenValues("GITLAB_TOKEN"), BB_TOKEN : TokenValues("BB_TOKEN"),
   BITBUCKET_TOKEN : TokenValues("BITBUCKET_TOKEN")]

\* a repository URL as the user gives it: its form, its host and its path
RepositoryUrl(form, host, path) == [form |-> form, host |-> host, path |-> path]

\* the URLs of the tests: git@host:path, https://, http://, git+https://,
\* git+http:// and the shorthand owner/repo
RepositoryUrls ==
  {RepositoryUrl(form, "host.null", "owner/repo.git") :
     form \in {"ssh", "https", "http", "git+https", "git+http"}}
    \cup {RepositoryUrl("shortcut", "github.com", "owner/repo")}

\* the text of a URL
UrlText(url) ==
  CASE url.form = "ssh" -> "git@" \o url.host \o ":" \o url.path
    [] url.form = "shortcut" -> url.path
    [] OTHER -> url.form \o "://" \o url.host \o "/" \o url.path

\* gitUrlParse(repositoryUrl).protocols
Protocols(url) ==
  CASE url.form = "https" -> {"https"}
    [] url.form = "http" -> {"http"}
    [] url.form = "git+https" -> {"git", "https"}
    [] url.form = "git+http" -> {"git", "http"}
    [] OTHER -> {}

\* lines 32-47: a shorthand is expanded to its https URL, git+https and git+http
\* become https and http
NormalizeUrl(url) ==
  IF url.form = "shortcut"
  THEN RepositoryUrl("https", url.host, url.path \o ".git")
  ELSE IF "https" \in Protocols(url) THEN [url EXCEPT !.form = "https"]
  ELSE IF "http" \in Protocols(url) THEN [url EXCEPT !.form = "http"]
  ELSE url

\* Object.keys(GIT_TOKENS).find(envVar => !isUndefined(env[envVar])): the position
\* of the first variable that is set, 0 when none is
FindEnvVar(e) ==
  IF \E i \in 1..Len(GIT_TOKENS) : e[GIT_TOKENS[i]] # Undefined
  THEN CHOOSE i \in 1..Len(GIT_TOKENS) :
         /\ e[GIT_TOKENS[i]] # Undefined
         /\ \A j \in 1..(i - 1) : e[GIT_TOKENS[j]] = Undefined
  ELSE 0

\* `${GIT_TOKENS[envVar] || ''}${env[envVar] || ''}`
GitCredentials(e) ==
  IF FindEnvVar(e) = 0 THEN ""
  ELSE TokenPrefix(GIT_TOKENS[FindEnvVar(e)]) \o e[GIT_TOKENS[FindEnvVar(e)]]

\* line 56: https or http as in the URL, https for the other forms
AuthProtocol(url) ==
  IF "https" \in Protocols(url) THEN "https"
  ELSE IF "http" \in Protocols(url) THEN "http"
  ELSE "https"

\* {...parsed, protocols: [protocol], user: gitCredentials}.toString(protocol)
UrlWithUser(url, user) ==
  AuthProtocol(url) \o "://" \o user \o "@" \o url.host \o "/" \o url.path

\* GetGitAuthUrl that adds the credentials without testing the push
GetGitAuthUrlUntested(url, e, authorized) ==
  IF GitCredentials(e) # "" THEN UrlWithUser(NormalizeUrl(url), GitCredentials(e))
  ELSE UrlText(NormalizeUrl(url))

\* getGitAuthUrl({repositoryUrl, branch}, env) ; authorized: verifyAuth passes
GetGitAuthUrl(url, e, authorized) ==
  IF authorized THEN UrlText(NormalizeUrl(url))
  ELSE IF GitCredentials(e) # "" THEN UrlWithUser(NormalizeUrl(url), GitCredentials(e))
  ELSE UrlText(NormalizeUrl(url))

\* a repository URL and an environment, before run() computes the URL to push to
InitAuthUrl ==
  /\ isCi = TRUE
  /\ isPr = FALSE
  /\ noCi = FALSE
  /\ optDryRun = FALSE
  /\ dryRun = FALSE
  /\ ciBranch = "master"
  /\ branches = MakeBranches("master", {})
  /\ localTags = {}
  /\ remoteTags = {}
  /\ pc = "getGitAuthUrl"
  /\ result = "none"
  /\ thrown = <<>>
  /\ errors = <<>>
  /\ releasesToAdd = <<>>
  /\ idx = 1
  /\ lastRelease = NoRelease
  /\ relType = Undefined
  /\ nextRelease = NoNextRelease
  /\ head = InitialHead
  /\ authAttempts = 0
  /\ remoteStatus = [b \in BranchNames |-> "unknown"]
  /\ failCalls = <<>>
  /\ tagIndex = NoTagIndex
  /\ repo = NoRepo
  /\ \E url \in RepositoryUrls : config = CoreConfig(TRUE, url, <<"v", "${version}">>)
  /\ plugins = NoPlugins
  /\ calls = <<>>
  /\ releases = <<>>
  /\ env \in TokenEnvs
  /\ log = <<>>

\* options.repositoryUrl = await getGitAuthUrl(options) (run(), line 64) ; the
\* history keeps the URL that was given and whether the push test passed
ComputeGitAuthUrl ==
  /\ pc = "getGitAuthUrl"
  /\ \E authorized \in BOOLEAN :
       /\ config' = [config EXCEPT
                       !.repositoryUrl = GetGitAuthUrl(@, env, authorized)]
       /\ log' = Append(log, [op |-> "getGitAuthUrl", rel |-> "run",
                              version |-> NoVersion, ok |-> authorized,
                              repositoryUrl |-> config.repositoryUrl])
       /\ authAttempts' = authAttempts + 1
  /\ pc' = "verifyAuth"
  /\ UNCHANGED <<isCi, isPr, ciBranch, noCi, optDryRun, dryRun, branches, result,
                 thrown, errors, releasesToAdd, idx, lastRelease, relType,
                 nextRelease, head, localTags, remoteTags, remoteStatus, failCalls,
                 tagIndex, repo, plugins, calls, releases, env>>

NextAuthUrl == ComputeGitAuthUrl

SpecAuthUrl == InitAuthUrl /\ [][NextAuthUrl]_vars

(***************************************************************************)
(* The top-level wrapper (module.exports of index.js) and the filter of    *)
(* the output (lib/hide-sensitive.js)                                      *)
(***************************************************************************)
\* the environment variables of the invocations of the wrapper
DriverEnvNames == {"MY_TOKEN", "NPM_PASSWORD", "HOME"}

\* the values of these variables: empty, blank, or a text
DriverEnvValues == {"", " ", "secret token", "/root"}

\* the environments of the invocations of the wrapper
DriverEnvs == [DriverEnvNames -> DriverEnvValues]

\* /token|password|credential|secret|private/i.test(envVar), for the keys met here:
\* the names of variables, and the indices that are the keys of a string
SensitiveName(envVar) ==
  envVar \in {"MY_TOKEN", "GH_TOKEN", "NPM_PASSWORD", "GIT_CREDENTIALS", "MY_SECRET",
              "PRIVATE_KEY"}

\* value.trim()
Trim(value) == IF value \in {" ", "  "} THEN "" ELSE value

\* hideSensitive(env), lines 3-12: the function it returns, given by the variables
\* to replace and the environment they are read from
HideSensitive(e) ==
  [toReplace |-> {envVar \in DOMAIN e : SensitiveName(envVar) /\ Trim(e[envVar]) # ""},
   env |-> e]

\* the function returned by hideSensitive applied to an output, lines 8-10: a text
\* is a sequence of pieces, and the pieces that are a value to replace become
\* '[secure]'
FilterOutput(filter, output) ==
  IF output # <<>> /\ filter.toReplace # {}
  THEN [i \in DOMAIN output |->
          IF output[i] \in {filter.env[envVar] : envVar \in filter.toReplace}
          THEN "[secure]" ELSE output[i]]
  ELSE output

\* a string seen as an object: its keys are its indices
StringKeys(output) == [k \in {ToString(i) : i \in DOMAIN output} |-> "char"]

\* the transform given to hookStd (index.js line 194) applied to a write: it is
\* hideSensitive itself, so the output takes the place of env and what comes back
\* is a function
HookTransform(output, e) ==
  [type |-> "function", value |-> HideSensitive(StringKeys(output))]

\* what reaches the stream for a write while the hook is installed: hook-std
\* writes what the transform returned when it is a string, and the output itself
\* otherwise
HookWrite(output, e) ==
  LET ret == HookTransform(output, e)
  IN IF ret.type = "string" THEN ret.value ELSE output

\* whether the hook is installed: hookStd was called and unhook was not
Hooked(history) ==
  /\ \E i \in DOMAIN history : history[i].op = "hook"
  /\ \A i \in DOMAIN history : history[i].op # "unhook"

\* a write to standard output or standard error, as it reaches the stream
WriteEvent(history, output, e) ==
  [op |-> "write", said |-> output,
   text |-> IF Hooked(history) THEN HookWrite(output, e) ELSE output]

\* the message of an error raised during the invocation: it may quote a variable
ErrorMessage(err, e) == <<err.code, err.step, "Invalid token", e["MY_TOKEN"]>>

\* what a plugin prints when it is called
PluginOutput(e) == <<"The token", e["MY_TOKEN"], "is invalid">>

\* an error written by logErrors, as it reaches the stream
LogEvent(history, err, e) ==
  [op |-> "logError", error |-> err, said |-> ErrorMessage(err, e),
   text |-> IF Hooked(history) THEN HookWrite(ErrorMessage(err, e), e)
            ELSE ErrorMessage(err, e)]

\* the order in which logErrors writes the errors (line 168): those of the
\* semanticRelease class first
SortErrors(errs) ==
  SelectSeq(errs, LAMBDA err : err.semanticRelease)
    \o SelectSeq(errs, LAMBDA err : ~err.semanticRelease)

RECURSIVE LogEach(_, _, _)

\* the history after each error of errs was written, lines 169-178
LogEach(history, errs, e) ==
  IF errs = <<>> THEN history
  ELSE LogEach(Append(history, LogEvent(history, Head(errs), e)), Tail(errs), e)

\* LogErrors that writes nothing
LogErrorsNothing(history, err, e) == history

\* logErrors(err), lines 167-179
LogErrors(history, err, e) == LogEach(history, SortErrors(ExtractErrors(err)), e)

RECURSIVE WriteEach(_, _, _)

\* the history after n plugins printed their output
WriteEach(history, n, e) ==
  IF n = 0 THEN history
  ELSE WriteEach(Append(history, WriteEvent(history, PluginOutput(e), e)), n - 1, e)

\* the stages of getConfig that may raise (get-config.js lines 67-85)
ConfigStages == {"fetch", "getTags", "getBranches", "plugins"}

\* what getConfig raises at a stage: an error of git, an aggregate of errors of the
\* semanticRelease class for invalid branches (lib/branches/index.js lines 33-35),
\* an error of either kind while the plugins are loaded
ConfigErrors(stage) ==
  CASE stage = "getBranches" ->
         {AggregateError(<<PluginError(stage, 0, 1, TRUE), PluginError(stage, 0, 2, TRUE)>>)}
    [] stage = "plugins" -> {PluginError(stage, 0, 1, marked) : marked \in BOOLEAN}
    [] OTHER -> {PluginError(stage, 0, 1, FALSE)}

\* the plugins of the invocations of the wrapper
DriverPlugins ==
  [verifyConditions : 1..MaxPlugins, fail : 1..MaxPlugins]

\* an invocation of the wrapper before its first statement
InitDriver ==
  /\ isCi = TRUE
  /\ isPr = FALSE
  /\ noCi = FALSE
  /\ optDryRun \in BOOLEAN
  /\ dryRun = optDryRun
  /\ ciBranch = "master"
  /\ branches = MakeBranches("master", {})
  /\ localTags = {}
  /\ remoteTags = {}
  /\ pc = "hookStd"
  /\ result = "none"
  /\ thrown = <<>>
  /\ errors = <<>>
  /\ releasesToAdd = <<>>
  /\ idx = 1
  /\ lastRelease = NoRelease
  /\ relType = Undefined
  /\ nextRelease = NoNextRelease
  /\ head = InitialHead
  /\ authAttempts = 0
  /\ remoteStatus = [b \in BranchNames |-> "unknown"]
  /\ failCalls = <<>>
  /\ tagIndex = NoTagIndex
  /\ repo = NoRepo
  /\ config = NoConfig
  /\ plugins \in DriverPlugins
  /\ calls = <<>>
  /\ releases = <<>>
  /\ env \in DriverEnvs
  /\ log = <<>>

\* what no step of the wrapper changes
DriverFrame ==
  UNCHANGED <<isCi, isPr, ciBranch, noCi, optDryRun, dryRun, branches, errors,
              releasesToAdd, idx, lastRelease, relType, nextRelease, head, localTags,
              remoteTags, authAttempts, remoteStatus, tagIndex, repo, config, plugins,
              releases, env>>

\* lines 193-194: the first message is written, then the hook is installed
HookStd ==
  /\ pc = "hookStd"
  /\ log' = Append(Append(log, WriteEvent(log, <<"Running">>, env)), [op |-> "hook"])
  /\ pc' = "getConfig"
  /\ UNCHANGED <<result, thrown, calls, failCalls>>
  /\ DriverFrame

\* GetConfig inside the inner try: its error reaches callFail
GetConfigInInnerTry ==
  /\ pc = "getConfig"
  /\ \/ /\ pc' = "run"
        /\ UNCHANGED thrown
     \/ \E stage \in ConfigStages : \E err \in ConfigErrors(stage) :
          /\ pc' = "catch"
          /\ thrown' = err
  /\ log' = Append(log, [op |-> "getConfig"])
  /\ UNCHANGED <<result, calls, failCalls>>
  /\ DriverFrame

\* const config = await getConfig(opts, logger) (line 196): an error goes to the
\* outer catch
GetConfig ==
  /\ pc = "getConfig"
  /\ \/ /\ pc' = "run"
        /\ log' = Append(log, [op |-> "getConfig"])
        /\ UNCHANGED thrown
     \/ \E stage \in ConfigStages : \E err \in ConfigErrors(stage) :
          /\ pc' = "logErrors"
          /\ thrown' = err
          /\ log' = Append(log, [op |-> "getConfig"])
  /\ UNCHANGED <<result, calls, failCalls>>
  /\ DriverFrame

\* const result = await run(options, plugins) (lines 199-201), as far as the wrapper
\* sees it: a gate returns a falsy value before any plugin, or the plugins of
\* verifyConditions are called, print, and the run returns true or raises ; when
\* it returns, unhook() is called
Run ==
  /\ pc = "run"
  /\ \/ /\ \E value \in {"undefined", "false"} : Return(value)
        /\ log' = Append(log, [op |-> "unhook"])
        /\ UNCHANGED <<thrown, calls>>
     \/ \E what \in OutcomeLists("verifyConditions", plugins.verifyConditions) :
          LET st == Pipeline("verifyConditions", what, 1,
                             PipelineInput(nextRelease, <<>>))
              printed == WriteEach(log, plugins.verifyConditions, env)
          IN /\ calls' = st.calls
             /\ IF Raises(st)
                THEN /\ pc' = "catch"
                     /\ thrown' = AggregateError(st.errors)
                     /\ log' = printed
                     /\ UNCHANGED result
                ELSE /\ Return("true")
                     /\ log' = Append(printed, [op |-> "unhook"])
                     /\ UNCHANGED thrown
  /\ UNCHANGED failCalls
  /\ DriverFrame

\* the inner catch, lines 202-207, and callFail, lines 181-190: unless the run is
\* a dry-run the fail plugins are given the errors of the semanticRelease class,
\* and what they raise is logged ; then the error of the run is raised again
CallFail ==
  /\ pc = "catch"
  /\ IF CallsFail(dryRun, ExtractErrors(thrown))
     THEN \E what \in OutcomeLists("fail", plugins.fail) :
            LET st == Pipeline("fail", what, 1, PipelineInput(nextRelease, <<>>))
            IN /\ calls' = st.calls
               /\ failCalls' = Append(failCalls, MarkedErrors(ExtractErrors(thrown)))
               /\ log' = IF Raises(st)
                         THEN LogErrors(log, AggregateError(st.errors), env)
                         ELSE log
     ELSE UNCHANGED <<calls, failCalls, log>>
  /\ pc' = "logErrors"
  /\ UNCHANGED <<result, thrown>>
  /\ DriverFrame

\* the outer catch, lines 208-212: logErrors(err) ; unhook() ; throw err
LogAndThrow ==
  /\ pc = "logErrors"
  /\ log' = Append(LogErrors(log, thrown, env), [op |-> "unhook"])
  /\ Return("throw")
  /\ UNCHANGED <<thrown, calls, failCalls>>
  /\ DriverFrame

NextDriver ==
  \/ HookStd
  \/ GetConfig
  \/ Run
  \/ CallFail
  \/ LogAndThrow

SpecDriver == InitDriver /\ [][NextDriver]_vars

(***************************************************************************)
(* The environment of git (run(), lines 29-43), for any environment the    *)
(* invocation starts in                                                    *)
(***************************************************************************)
\* the variables of the environments the invocation starts in
GateEnvNames == {"GIT_AUTHOR_NAME", "GIT_COMMITTER_EMAIL", "GIT_ASKPASS",
                 "GIT_TERMINAL_PROMPT", "HOME"}

\* the values of these variables
GateEnvValues == {"", "mine"}

\* the environments: each variable is unset or holds a value
GateEnvs == UNION {[names -> GateEnvValues] : names \in SUBSET GateEnvNames}

\* an invocation on master before the first statement of run()
InitGate ==
  /\ isCi \in BOOLEAN
  /\ isPr \in BOOLEAN
  /\ noCi \in BOOLEAN
  /\ optDryRun \in BOOLEAN
  /\ dryRun = optDryRun
  /\ ciBranch = "master"
  /\ branches = MakeBranches("master", {})
  /\ localTags = {}
  /\ remoteTags = {}
  /\ pc = "gate"
  /\ result = "none"
  /\ thrown = <<>>
  /\ errors = <<>>
  /\ releasesToAdd = <<>>
  /\ idx = 1
  /\ lastRelease = NoRelease
  /\ relType = Undefined
  /\ nextRelease = NoNextRelease
  /\ head = InitialHead
  /\ authAttempts = 0
  /\ remoteStatus = [b \in BranchNames |-> "unknown"]
  /\ failCalls = <<>>
  /\ tagIndex = NoTagIndex
  /\ repo = NoRepo
  /\ config = NoConfig
  /\ plugins = NoPlugins
  /\ calls = <<>>
  /\ releases = <<>>
  /\ env \in GateEnvs
  /\ log = <<>>

\* run() up to its first plugin step
NextGate ==
  \/ Gate
  \/ Verify
  \/ FindBranch
  \/ VerifyAuth
  \/ VerifyConditions
  \/ Catch

SpecGate == InitGate /\ [][NextGate]_vars

(***************************************************************************)
(* Observations on the history                                             *)
(***************************************************************************)
\* the plugin steps
PluginOps == {"verifyConditions", "analyzeCommits", "verifyRelease", "generateNotes",
              "addChannel", "prepare", "publish", "success", "fail"}

\* the step or command op was invoked
Invoked(op) == \E i \in 1..Len(log) : log[i].op = op

\* the step or command op was invoked for a release of kind rel
InvokedFor(op, rel) == \E i \in 1..Len(log) : log[i].op = op /\ log[i].rel = rel

\* the step or command op completed successfully for a release of kind rel
Completed(op, rel) ==
  \E i \in 1..Len(log) : log[i].op = op /\ log[i].rel = rel /\ log[i].ok

\* the tags of the repository when the invocation started
InitialTags ==
  IF FindIndex(branches, ciBranch) = 0 THEN {}
  ELSE GitTags({Branch.tags[i] : i \in 1..Len(Branch.tags)})

\* the tags this invocation created locally or pushed to the remote
NewTags == (localTags \cup remoteTags) \ InitialTags

\* the invocation has ended, by return or by error
Ended == pc = "done"

\* the order of the steps of the next release in a run that is not a dry-run
NextReleaseOrder == <<"verifyConditions", "analyzeCommits", "verifyRelease",
                      "generateNotes", "prepare", "tag", "push", "publish", "success">>

\* the history restricted to the steps of the invocation and of the next release
NextReleaseLog ==
  SelectSeq(log, LAMBDA e : e.rel \in {"run", "next"} /\ e.op # "fail")

(***************************************************************************)
(* C1                                                                      *)
(***************************************************************************)
\* C1: whenever publish has been invoked, the tag nextRelease.gitTag was created
\* locally and then pushed before it, and it exists in the local and in the remote
\* repository; whenever success has been invoked for the next release, publish
\* had completed before it.
C1_TagPushedBeforePublish ==
  /\ \A i \in 1..Len(log) :
       log[i].op = "publish" =>
         /\ ~dryRun
         /\ \E j \in 1..(i - 1), k \in 1..(i - 1) :
              /\ j < k
              /\ log[j] = Event("tag", "next", nextRelease.version, TRUE)
              /\ log[k] = Event("push", "next", nextRelease.version, TRUE)
         /\ \E t \in localTags : t.gitTag = nextRelease.gitTag
         /\ \E t \in remoteTags : t.gitTag = nextRelease.gitTag
  /\ \A i \in 1..Len(log) :
       log[i].op = "success" /\ log[i].rel = "next" =>
         \E j \in 1..(i - 1) : log[j] = Event("publish", "next", nextRelease.version, TRUE)

\* a release was published and success was called
C1_Witness ==
  /\ Ended /\ result = "true" /\ ~dryRun
  /\ Completed("publish", "next") /\ Completed("success", "next")

(***************************************************************************)
(* C2                                                                      *)
(***************************************************************************)
\* C2: in a dry-run (requested, or forced by the gate) no tag is created, nothing is
\* pushed and none of addChannel, prepare, publish, success is invoked, whatever the
\* snapshot.
C2_DryRunHasNoSideEffect ==
  dryRun =>
    /\ NewTags = {}
    /\ ~Invoked("tag") /\ ~Invoked("push")
    /\ ~Invoked("addChannel") /\ ~Invoked("prepare")
    /\ ~Invoked("publish") /\ ~Invoked("success")

(***************************************************************************)
(* C3                                                                      *)
(***************************************************************************)
\* C3 as stated, on the runs that are not dry-runs: when the invocation has ended,
\* every tag it created or pushed belongs to a version whose publish step completed.
C3_TagsOnlyWhenPublished ==
  Ended /\ ~dryRun =>
    \A t \in NewTags :
      \E i \in 1..Len(log) : log[i] = Event("publish", "next", t.gitTag.v, TRUE)

\* C3 amended: when the invocation has ended, every tag it created belongs either
\* to a release to add whose generateNotes step completed, or to the next release
\* of a run that is not a dry-run and whose verifyRelease, generateNotes and
\* prepare steps completed; when the tag and the push of the next release
\* succeeded, publish was invoked. Tags are not removed when a later step fails.
C3_TagsOnlyAfterPreparation ==
  Ended =>
    /\ \A i \in 1..Len(log) :
         log[i].op = "tag" /\ log[i].ok =>
           \/ /\ log[i].rel = "add"
              /\ \E j \in 1..(i - 1) :
                   log[j] = Event("generateNotes", "add", log[i].version, TRUE)
           \/ /\ log[i].rel = "next"
              /\ ~dryRun
              /\ \A op \in {"verifyRelease", "generateNotes", "prepare"} :
                   \E j \in 1..(i - 1) : log[j] = Event(op, "next", log[i].version, TRUE)
    /\ \A t \in NewTags :
         \E i \in 1..Len(log) :
           log[i].op = "tag" /\ log[i].ok /\ log[i].version = t.gitTag.v
    /\ Completed("tag", "next") /\ Completed("push", "next") => Invoked("publish")

\* a tag was created and pushed for the next release and publish failed
C3_Witness ==
  /\ Ended /\ result = "throw"
  /\ \E t \in NewTags : t.gitTag = nextRelease.gitTag
  /\ \E i \in 1..Len(log) : log[i] = Event("publish", "next", nextRelease.version, FALSE)

(***************************************************************************)
(* C4                                                                      *)
(***************************************************************************)
\* C4: when isCi and isPr hold and noCi is not set, the run returns a falsy value,
\* no plugin step is invoked and no tag is created or pushed.
C4_PullRequestGate ==
  isCi /\ isPr /\ ~noCi =>
    /\ pc \in {"gate", "done"}
    /\ Ended => result = "undefined"
    /\ \A i \in 1..Len(log) : log[i].op \notin PluginOps
    /\ ~Invoked("tag") /\ ~Invoked("push")
    /\ NewTags = {}

\* a run triggered by a pull request in CI has returned
C4_Witness == isCi /\ isPr /\ ~noCi /\ Ended /\ authAttempts = 0

(***************************************************************************)
(* C5                                                                      *)
(***************************************************************************)
\* C5 as stated: a run with isPr never invokes analyzeCommits, whatever isCi, dryRun
\* and noCi.
C5_PullRequestNeverAnalyzes == isPr => ~Invoked("analyzeCommits")

\* C5 amended: a run with isPr never invokes analyzeCommits when it runs in CI
\* and noCi is not set; outside CI, or with noCi, a run with isPr is not refused.
C5_PullRequestInCiNeverAnalyzes == isPr /\ isCi /\ ~noCi => ~Invoked("analyzeCommits")

\* a run triggered by a pull request in CI, without noCi, has ended with an empty
\* history
C5_Witness == isPr /\ isCi /\ ~noCi /\ Ended /\ result = "undefined" /\ log = <<>>

(***************************************************************************)
(* C6                                                                      *)
(***************************************************************************)
\* C6: outside CI and without noCi, publish is never invoked; options.dryRun is
\* true as soon as the gate has run, hence before any plugin runs; and for the
\* invocation and its next release only verifyConditions, analyzeCommits,
\* verifyRelease and generateNotes are performed (no prepare, tag, push, publish,
\* success or fail).
C6_NoPublishOutsideCi ==
  ~isCi /\ ~noCi =>
    /\ ~Invoked("publish")
    /\ pc # "gate" => dryRun
    /\ log # <<>> => dryRun
    /\ \A i \in 1..Len(log) :
         log[i].rel \in {"run", "next"} =>
           log[i].op \in {"verifyConditions", "analyzeCommits", "verifyRelease",
                          "generateNotes"}

\* a run outside CI that did not ask for a dry-run previewed a release
C6_Witness ==
  /\ ~isCi /\ ~noCi /\ ~optDryRun
  /\ Ended /\ result = "true"
  /\ Completed("generateNotes", "next")

(***************************************************************************)
(* C7                                                                      *)
(***************************************************************************)
\* C7: in a run that is not a dry-run, the steps performed for the invocation and
\* its next release are a prefix of verifyConditions, analyzeCommits,
\* verifyRelease, generateNotes, prepare, tag, push, publish, success: each step
\* occurs at most once, in that order, and every step but the last one performed
\* completed successfully (nothing follows a failed step).
C7_FixedStepOrder ==
  ~dryRun =>
    /\ Len(NextReleaseLog) <= Len(NextReleaseOrder)
    /\ \A i \in 1..Len(NextReleaseLog) :
         /\ NextReleaseLog[i].op = NextReleaseOrder[i]
         /\ i < Len(NextReleaseLog) => NextReleaseLog[i].ok

\* the nine steps were performed
C7_Witness ==
  /\ ~dryRun /\ Ended
  /\ Len(NextReleaseLog) = Len(NextReleaseOrder)
  /\ NextReleaseLog[Len(NextReleaseLog)].ok

(***************************************************************************)
(* C8                                                                      *)
(***************************************************************************)
\* C8: when analyzeCommits yields no release type, the run returns a falsy value,
\* and verifyRelease, generateNotes for the next release, prepare and publish are
\* not invoked and no tag is created for a next release, also after back-ports.
C8_NoTypeNoRelease ==
  Completed("analyzeCommits", "next") /\ relType = Undefined =>
    /\ Ended /\ result = "undefined"
    /\ ~Invoked("verifyRelease")
    /\ ~InvokedFor("generateNotes", "next")
    /\ ~Invoked("prepare") /\ ~Invoked("publish")
    /\ ~InvokedFor("tag", "next") /\ ~InvokedFor("push", "next")
    /\ nextRelease = NoNextRelease

\* analyzeCommits found no release after a back-port was performed
C8_Witness ==
  /\ Completed("analyzeCommits", "next") /\ relType = Undefined
  /\ Completed("addChannel", "add")

(***************************************************************************)
(* C9                                                                      *)
(***************************************************************************)
\* the next version is computed and is not within the range of the active branch
NextVersionOutOfRange ==
  /\ Completed("analyzeCommits", "next")
  /\ relType # Undefined
  /\ ~SemverSatisfies(GetNextVersion(Branch, relType, lastRelease), Branch.range)

\* C9 as stated, on the runs that are not dry-runs: when the next version is out
\* of the branch's range the run fails with EINVALIDNEXTVERSION before
\* verifyRelease, no tag is created, no push is performed and publish is not
\* invoked.
C9_OutOfRangeNoTagNoPush ==
  NextVersionOutOfRange /\ ~dryRun =>
    /\ pc \in {"threw", "done"}
    /\ thrown = <<GetError("EINVALIDNEXTVERSION")>>
    /\ ~Invoked("verifyRelease")
    /\ ~Invoked("tag") /\ ~Invoked("push") /\ NewTags = {}
    /\ ~Invoked("publish")

\* C9 amended: when the next version is out of the branch's range the run fails
\* with EINVALIDNEXTVERSION before verifyRelease, no tag is created and no push is
\* performed for the next release, and publish is not invoked; the tags created
\* and pushed for the releases to add earlier in the invocation remain.
C9_OutOfRangeNoNextTag ==
  NextVersionOutOfRange =>
    /\ pc \in {"threw", "done"}
    /\ Ended => result = "throw"
    /\ thrown = <<GetError("EINVALIDNEXTVERSION")>>
    /\ ~Invoked("verifyRelease")
    /\ ~InvokedFor("tag", "next") /\ ~InvokedFor("push", "next")
    /\ ~Invoked("publish")
    /\ nextRelease = NoNextRelease
    /\ \A t \in NewTags :
         \E i \in 1..Len(log) : log[i] = Event("tag", "add", t.gitTag.v, TRUE)

\* the run failed on the range check after a back-port was tagged and pushed
C9_Witness ==
  /\ NextVersionOutOfRange /\ Ended /\ ~dryRun
  /\ Completed("push", "add")
  /\ NewTags # {}

(***************************************************************************)
(* C10                                                                     *)
(***************************************************************************)
\* the versions tagged on the channel of a branch the planner looks at (ranked
\* higher than the active branch, not a prerelease branch) and not tagged on the
\* channel of the active branch
VersionsToAdd ==
  {v \in Versions :
     /\ \E h \in 1..Len(HigherBranches(Branch, branches)), i \in 1..Len(Branch.tags) :
          /\ Branch.tags[i].version = v
          /\ Branch.tags[i].channel = HigherBranches(Branch, branches)[h].channel
     /\ \A i \in 1..Len(Branch.tags) :
          ~(Branch.tags[i].version = v /\ Branch.tags[i].channel = Branch.channel)}

\* C10: for every version tagged on a higher branch's channel in the active
\* branch's tag list and not tagged on the active branch's channel, the
\* releases-to-add list holds exactly one entry with nextRelease.version = v; and
\* it holds no entry for a version already tagged on the active branch's channel.
\* (Higher branch is read as the planner reads it, prerelease branches excluded;
\* with them included the statement is stronger.)
C10_ExactlyOneEntryPerVersion ==
  Completed("verifyConditions", "run") =>
    /\ \A v \in VersionsToAdd :
         Cardinality({i \in 1..Len(releasesToAdd) :
                        releasesToAdd[i].nextRelease.version = v}) = 1
    /\ \A i \in 1..Len(releasesToAdd) :
         releasesToAdd[i].nextRelease.version \in VersionsToAdd

(***************************************************************************)
(* C11                                                                     *)
(***************************************************************************)
\* the steps performed for the releases to add, in the order of the history
AddLog == SelectSeq(log, LAMBDA e : e.rel = "add")

\* the order of the steps of one release to add
AddOrder == <<"generateNotes", "tag", "push", "addChannel", "success">>

\* the entries of the releases-to-add list that pass the merge-range check, in
\* list order
ProcessedEntries ==
  SelectSeq(releasesToAdd,
            LAMBDA r : ~(Branch.hasMergeRange
                         /\ ~SemverSatisfies(r.nextRelease.version, Branch.mergeRange)))

\* C11: the steps performed for the releases to add follow the list order, entry
\* by entry: generateNotes, tag (nextRelease.gitTag at nextRelease.gitHead), push,
\* addChannel, success ; every step but the last one performed completed, so that
\* an entry starts only after success of the previous one completed ; prepare and
\* publish are never invoked for a release to add nor for its version.
C11_BackportsInListOrder ==
  Completed("verifyConditions", "run") =>
    /\ Len(AddLog) <= Len(AddOrder) * Len(ProcessedEntries)
    /\ \A i \in 1..Len(AddLog) :
         LET entry == ProcessedEntries[((i - 1) \div Len(AddOrder)) + 1]
         IN /\ AddLog[i].op = AddOrder[((i - 1) % Len(AddOrder)) + 1]
            /\ AddLog[i].version = entry.nextRelease.version
            /\ i < Len(AddLog) => AddLog[i].ok
            /\ AddLog[i].op = "tag" /\ AddLog[i].ok =>
                 [gitTag |-> entry.nextRelease.gitTag,
                  gitHead |-> entry.nextRelease.gitHead] \in localTags
    /\ \A i \in 1..Len(log) :
         log[i].op \in {"prepare", "publish"} =>
           /\ log[i].rel = "next"
           /\ \A j \in 1..Len(releasesToAdd) :
                releasesToAdd[j].nextRelease.version # log[i].version

\* two releases to add were processed to the end, then a release was published
C11_Witness ==
  /\ Ended /\ Completed("verifyConditions", "run")
  /\ Len(ProcessedEntries) = 2
  /\ Len(AddLog) = Len(AddOrder) * Len(ProcessedEntries)
  /\ AddLog[Len(AddLog)].ok
  /\ Completed("publish", "next")

(***************************************************************************)
(* C12                                                                     *)
(***************************************************************************)
\* whether a version is outside the merge range of the active branch
OutsideMergeRange(v) == ~SemverSatisfies(v, Branch.mergeRange)

\* the number of entries among the first n of the releases-to-add list whose
\* version is outside the merge range
SkippedAmong(n) ==
  Cardinality({j \in 1..n : OutsideMergeRange(releasesToAdd[j].nextRelease.version)})

\* C12: on a branch with a merge range, no step is performed and no tag is created
\* for an entry whose version is outside it, and one EINVALIDLTSMERGE error is
\* recorded per such entry ; once an error is recorded analyzeCommits and publish
\* are never invoked and the run ends by failing ; when no step of another entry
\* failed, every other entry was processed to the end and the error of the run is
\* the aggregate of the recorded errors.
C12_OutOfMergeRangeSkipped ==
  Completed("verifyConditions", "run") /\ Branch.hasMergeRange =>
    /\ \A i \in 1..Len(AddLog) : ~OutsideMergeRange(AddLog[i].version)
    /\ \A t \in NewTags : ~OutsideMergeRange(t.gitTag.v)
    /\ Len(errors) = SkippedAmong(idx - 1)
    /\ \A i \in 1..Len(errors) : errors[i] = GetError("EINVALIDLTSMERGE")
    /\ errors # <<>> =>
         /\ ~Invoked("analyzeCommits") /\ ~Invoked("publish")
         /\ Ended => result = "throw"
         /\ Ended /\ (\A i \in 1..Len(AddLog) : AddLog[i].ok) =>
              /\ thrown = errors
              /\ Len(errors) = SkippedAmong(Len(releasesToAdd))
              /\ Len(AddLog) = Len(AddOrder) * Len(ProcessedEntries)

\* the first entry was out of the merge range and skipped, the second one was
\* processed to the end, and the run failed with the recorded error
C12_Witness ==
  /\ Ended /\ result = "throw"
  /\ Completed("verifyConditions", "run") /\ Branch.hasMergeRange
  /\ Len(releasesToAdd) = 2
  /\ OutsideMergeRange(releasesToAdd[1].nextRelease.version)
  /\ thrown = <<GetError("EINVALIDLTSMERGE")>>
  /\ Len(AddLog) = Len(AddOrder) /\ AddLog[Len(AddLog)].ok

(***************************************************************************)
(* C13                                                                     *)
(***************************************************************************)
\* the number of times the fail step was invoked
FailCount == Cardinality({i \in 1..Len(log) : log[i].op = "fail"})

\* whether sub holds exactly the marked elements of errs, in the order of errs
IsMarkedSubsequence(sub, errs) ==
  \E f \in [1..Len(sub) -> 1..Len(errs)] :
    /\ \A k \in 1..Len(sub) : sub[k] = errs[f[k]] /\ sub[k].semanticRelease
    /\ \A k \in 1..(Len(sub) - 1) : f[k] < f[k + 1]
    /\ \A i \in 1..Len(errs) :
         errs[i].semanticRelease => \E k \in 1..Len(sub) : f[k] = i

\* C13: when run() has failed in an invocation that is not a dry-run, the fail step
\* was invoked if and only if an element of the error carries the semanticRelease
\* marker ; it was then invoked exactly once, and its errors argument holds exactly
\* the marked errors in their order, the unmarked ones excluded. The fail step is
\* invoked in no other case.
C13_FailIffMarked ==
  /\ FailCount = Len(failCalls)
  /\ ~(Ended /\ result = "throw") => FailCount = 0
  /\ Ended /\ result = "throw" /\ ~dryRun =>
       /\ FailCount > 0 <=> \E i \in 1..Len(thrown) : thrown[i].semanticRelease
       /\ FailCount > 0 =>
            /\ FailCount = 1
            /\ IsMarkedSubsequence(failCalls[1], thrown)

\* a plugin raised an aggregate of marked and unmarked errors and the fail step
\* received the two marked ones
C13_Witness ==
  /\ Ended /\ result = "throw" /\ ~dryRun
  /\ Len(thrown) = 3
  /\ failCalls = << <<Error("EPLUGIN", TRUE), Error("EOTHER", TRUE)>> >>

(***************************************************************************)
(* C14                                                                     *)
(***************************************************************************)
\* C14: in a dry-run, requested by the caller or forced by the gate, the fail step
\* is never invoked, whatever the error of the run.
C14_NoFailInDryRun ==
  dryRun \/ optDryRun \/ (~isCi /\ ~noCi) =>
    /\ ~Invoked("fail")
    /\ failCalls = <<>>

\* a run whose dry-run was forced by the gate failed with a marked error
C14_Witness ==
  /\ ~optDryRun /\ dryRun
  /\ Ended /\ result = "throw"
  /\ \E i \in 1..Len(thrown) : thrown[i].semanticRelease

(***************************************************************************)
(* C15                                                                     *)
(***************************************************************************)
\* verifyAuth failed on a configured branch: run() looked at the remote heads
AuthFailed == ciBranch \in BranchNames /\ remoteStatus[ciBranch] # "unknown"

\* C15: when verifyAuth fails and the remote head of the active branch is not in
\* the history of the local active branch, the run returns a falsy value, no
\* plugin step is invoked and no tag is created.
C15_StaleCloneReturnsFalsy ==
  AuthFailed /\ remoteStatus[ciBranch] = "behind" =>
    /\ Ended /\ result = "false"
    /\ \A i \in 1..Len(log) : log[i].op \notin PluginOps
    /\ NewTags = {}

(***************************************************************************)
(* C16                                                                     *)
(***************************************************************************)
\* the steps C16 names
C16_Steps == {"verifyConditions", "analyzeCommits", "addChannel", "publish", "success"}

\* C16 as stated, on the runs whose active branch is the branch handed to the
\* staleness check: when verifyAuth fails and the check does not establish that
\* the branch is behind (it is up to date, or its remote head cannot be read), the
\* run fails with EGITNOPERMISSION and none of verifyConditions, analyzeCommits,
\* addChannel, publish, success is invoked.
C16_NotBehindFailsWithNoPermission ==
  AuthFailed /\ ciBranch = StalenessBranch /\ remoteStatus[ciBranch] # "behind" =>
    /\ pc \in {"threw", "done"}
    /\ thrown = <<GetError("EGITNOPERMISSION")>>
    /\ Ended => result = "throw"
    /\ \A i \in 1..Len(log) : log[i].op \notin C16_Steps

\* C16 amended: when verifyAuth fails and the staleness check finds the branch it
\* examines up to date, the run fails with EGITNOPERMISSION and none of
\* verifyConditions, analyzeCommits, addChannel, publish, success is invoked ; when
\* the check finds it behind or yields no answer (the remote head cannot be read),
\* the run returns a falsy value and invokes no plugin step.
C16_UpToDateFailsWithNoPermission ==
  AuthFailed =>
    /\ \A i \in 1..Len(log) : log[i].op \notin C16_Steps
    /\ NewTags = {}
    /\ IF remoteStatus[StalenessBranch] = "upToDate"
       THEN /\ pc \in {"threw", "done"}
            /\ thrown = <<GetError("EGITNOPERMISSION")>>
            /\ Ended => result = "throw"
       ELSE /\ Ended /\ result = "false"
            /\ thrown = <<>>
            /\ \A i \in 1..Len(log) : log[i].op \notin PluginOps

\* the run failed with EGITNOPERMISSION on an up-to-date branch, and the fail step
\* was its only plugin step
C16_Witness ==
  /\ AuthFailed /\ remoteStatus[StalenessBranch] = "upToDate"
  /\ Ended /\ result = "throw" /\ ~dryRun
  /\ thrown = <<GetError("EGITNOPERMISSION")>>
  /\ Len(log) = 1 /\ log[1].op = "fail"

(***************************************************************************)
(* C17                                                                     *)
(***************************************************************************)
\* no configured branch has the name of the CI branch
NoActiveBranch == \A i \in 1..Len(branches) : branches[i].name # ciBranch

\* C17: when no configured branch has the name of the CI branch, verifyAuth is
\* never attempted, no tag is created, nothing is pushed and no step of the
\* pipeline is invoked (fail is, when the verification of the options raises) ;
\* when the options are valid the run invokes no plugin step at all and returns a
\* falsy value.
C17_UnknownBranchReturnsFalsy ==
  NoActiveBranch =>
    /\ authAttempts = 0
    /\ NewTags = {}
    /\ \A i \in 1..Len(log) : log[i].op = "fail"
    /\ pc \in {"gate", "verify", "findBranch", "threw", "done"}
    /\ thrown = <<>> =>
         /\ log = <<>>
         /\ Ended => result \in {"false", "undefined"}
    /\ pc = "done" /\ ~PrGate(isCi, isPr, noCi) /\ thrown = <<>> => result = "false"

\* a run on a branch that is not configured returned false
C17_Witness ==
  /\ NoActiveBranch /\ Ended /\ result = "false"
  /\ log = <<>> /\ authAttempts = 0

(***************************************************************************)
(* C18                                                                     *)
(***************************************************************************)
\* the versions on which the ranges are probed
ProbeVersions == {V(a, b, 0) : a \in 1..4, b \in 0..2}

\* no version is within the ranges of two branches
RangesDisjoint ==
  \A i \in 1..Len(branches), j \in 1..Len(branches) :
    i < j =>
      \A v \in ProbeVersions :
        ~(SemverSatisfies(v, branches[i].range) /\ SemverSatisfies(v, branches[j].range))

PlannedReleasesToAdd == Completed("verifyConditions", "run")

\* the planner has computed the last release of the next release
PlannedLastRelease ==
  pc \in {"analyzeCommits", "verifyRelease", "generateNotes", "prepare", "tag", "push",
          "publish", "success"}
  \/ Invoked("analyzeCommits")

\* the versions of the snapshot that may be the last release of the active
\* branch: all of them on a prerelease branch, the ones without prerelease part
\* on the other branches
EligibleVersions ==
  {Branch.tags[i].version : i \in {j \in 1..Len(Branch.tags) :
     Branch.type = "prerelease" \/ Branch.tags[j].version.pre = ""}}

\* C19 as stated: the releases-to-add list, the last release and the next version
\* are functions of the snapshot alone and do not depend on what a plugin returns:
\* the next version is then the one the planner computes when analyzeCommits
\* returns "patch", whatever analyzeCommits returned.
C19_PlanFromSnapshotAlone ==
  /\ PlannedReleasesToAdd => releasesToAdd = GetReleasesToAdd(Branch, branches)
  /\ PlannedLastRelease => lastRelease = GetLastRelease(Branch, FALSE, NoVersion)
  /\ nextRelease.version # NoVersion =>
       nextRelease.version =
         GetNextVersion(Branch, "patch", GetLastRelease(Branch, FALSE, NoVersion))

\* C19 amended, the invariant part: whatever the plugins did or returned, the
\* releases-to-add list holds the versions the snapshot has on the channel of a
\* higher release branch and not on the channel of the active branch ; the last
\* release is the highest eligible version of the active branch's tags in the
\* snapshot (none when there is no such version) ; the next version is the one
\* getNextVersion gives for the last release and the type analyzeCommits returned.
C19_PlanInvariant ==
  /\ PlannedReleasesToAdd =>
       {releasesToAdd[i].nextRelease.version : i \in 1..Len(releasesToAdd)}
         = VersionsToAdd
  /\ PlannedLastRelease =>
       /\ lastRelease.version = NoVersion <=> EligibleVersions = {}
       /\ lastRelease.version # NoVersion =>
            /\ lastRelease.version \in EligibleVersions
            /\ \A v \in EligibleVersions : SemverCompare(lastRelease.version, v) >= 0
            /\ \E i \in 1..Len(Branch.tags) :
                 /\ Branch.tags[i].gitTag = lastRelease.gitTag
                 /\ Branch.tags[i].gitHead = lastRelease.gitHead
  /\ nextRelease.version # NoVersion =>
       /\ relType \in {"patch", "minor", "major"}
       /\ nextRelease.version = GetNextVersion(Branch, relType, lastRelease)
       /\ nextRelease.type = relType
       /\ SemverLt(lastRelease.version, nextRelease.version)

\* C19 amended: the releases-to-add list and the last release are functions of the
\* snapshot alone, and the next version is a function of the snapshot and of the
\* release type returned by analyzeCommits ; no step changes the snapshot, nor a
\* planner output once it is computed.
C19_PlanFromSnapshotAndType ==
  /\ []C19_PlanInvariant
  /\ [][/\ branches' = branches
        /\ PlannedReleasesToAdd => releasesToAdd' = releasesToAdd
        /\ PlannedLastRelease => lastRelease' = lastRelease
        /\ nextRelease.version # NoVersion => nextRelease'.version = nextRelease.version]_vars

\* a release was published with a minor increment after a release was added to the
\* channel of the active branch
C19_Witness ==
  /\ Ended /\ result = "true"
  /\ Completed("addChannel", "add") /\ Completed("publish", "next")
  /\ relType = "minor"
  /\ lastRelease.version # NoVersion

(***************************************************************************)
(* C20                                                                     *)
(***************************************************************************)
\* the tag name parsed was rendered from a version and a channel
RenderedFromVersion == tagIndex.version \in ValidVersionTexts

\* whether a text holds an "@"
HasAt(text) == \E i \in 1..Len(text) : text[i] = "@"

InTagList(t, i) == \E k \in 1..Len(branches[i].tags) : branches[i].tags[k] = t

\* the tags of the repository
TagsOfRepo == {repo.tags[k] : k \in 1..Len(repo.tags)}

\* C21: after tag indexing, a valid tag is in a configured branch's tag list if
\* and only if its commit is the branch's tip or one of its ancestors ; a branch
\* that does not exist locally gets an empty list ; each list is ordered by
\* version ascending and holds each tag once.
C21_TagsAssignedByAncestry ==
  pc = "indexed" =>
    \A i \in 1..Len(IndexedBranches) :
      /\ branches[i].name = IndexedBranches[i]
      /\ \A t \in TagsOfRepo :
           InTagList(t, i) <=> IsAncestor(t.gitHead, repo.tips[i])
      /\ \A k \in 1..Len(branches[i].tags) : branches[i].tags[k] \in TagsOfRepo
      /\ repo.tips[i] = 0 => branches[i].tags = <<>>
      /\ \A k \in 1..(Len(branches[i].tags) - 1) :
           SemverCompare(branches[i].tags[k].version, branches[i].tags[k + 1].version) <= 0
      /\ \A k, l \in 1..Len(branches[i].tags) :
           branches[i].tags[k] = branches[i].tags[l] => k = l

\* git listed v10.0.0 before v2.0.0 ; master has both, in the order of the versions,
\* next is on the other line of the history and has only the first of them
C21_Witness ==
  /\ pc = "indexed"
  /\ repo.parent = <<0, 1, 1>>
  /\ repo.tips = <<2, 3>>
  /\ Len(repo.tags) = 2
  /\ repo.tags[1].version = V(10, 0, 0) /\ repo.tags[1].gitHead = 2
  /\ repo.tags[2].version = V(2, 0, 0) /\ repo.tags[2].gitHead = 1
  /\ Len(branches[1].tags) = 2 /\ branches[1].tags[1].version = V(2, 0, 0)
  /\ Len(branches[2].tags) = 1

(***************************************************************************)
(* C22                                                                     *)
(***************************************************************************)
\* the positions of the errors with a code
PositionsOf(errs, code) == {i \in 1..Len(errs) : errs[i].code = code}

\* the positions of the entries that pass a test
EntriesWhere(Test(_)) == {i \in 1..Len(branches) : Test(branches[i])}

\* an entry that is not a record with a non-empty string name
LacksNonEmptyName(entry) == entry.shape # "object" \/ entry.name \in {Undefined, ""}

\* the non-empty names that occur more than once in the list
RepeatedNames ==
  {n \in EntryNames \ {Undefined, ""} :
     Cardinality({i \in 1..Len(branches) :
                    branches[i].shape # "falsy" /\ branches[i].name = n}) > 1}

\* the validation is over
Validated == pc \in {"verified", "threw"}

\* what C22 says of the order, of the duplicates and of the invalid names: the
\* codes come in the order EINVALIDBRANCH, EDUPLICATEBRANCHES, EINVALIDBRANCHNAME,
\* with one EDUPLICATEBRANCHES exactly when a name is repeated, which lists each
\* repeated name once, and one EINVALIDBRANCHNAME for the name of each entry that
\* is not a valid git reference, in the order of the entries
DuplicatesAndNamesReported ==
  /\ \A i, j \in 1..Len(errors) :
       i < j => ~(errors[i].code = "EINVALIDBRANCHNAME" /\ errors[j].code # "EINVALIDBRANCHNAME")
                /\ ~(errors[j].code = "EINVALIDBRANCH" /\ errors[i].code # "EINVALIDBRANCH")
  /\ \A i \in 1..Len(errors) :
       errors[i].code \in {"EINVALIDBRANCH", "EDUPLICATEBRANCHES", "EINVALIDBRANCHNAME"}
  /\ Cardinality(PositionsOf(errors, "EDUPLICATEBRANCHES")) =
       (IF RepeatedNames # {} THEN 1 ELSE 0)
  /\ \A i \in PositionsOf(errors, "EDUPLICATEBRANCHES") :
       /\ {errors[i].detail[k] : k \in 1..Len(errors[i].detail)} = RepeatedNames
       /\ Len(errors[i].detail) = Cardinality(RepeatedNames)
  /\ SelectSeq(errors, LAMBDA e : e.code = "EINVALIDBRANCHNAME") =
       [k \in 1..Len(InvalidNameErrors(branches)) |->
          VerifyError("EINVALIDBRANCHNAME", InvalidNameErrors(branches)[k].detail)]
  /\ Cardinality(PositionsOf(errors, "EINVALIDBRANCHNAME")) =
       Cardinality(EntriesWhere(LAMBDA e : e.shape = "object" /\ e.name = "test:"))
  /\ (pc = "threw") = (Len(errors) > 0)
  /\ pc = "threw" => thrown = errors

\* C22 as stated: one EINVALIDBRANCH per entry that is not a record with a
\* non-empty string name.
C22_OneErrorPerEntryWithoutName ==
  Validated =>
    /\ Cardinality(PositionsOf(errors, "EINVALIDBRANCH")) =
         Cardinality(EntriesWhere(LacksNonEmptyName))
    /\ DuplicatesAndNamesReported

\* C22 amended: the validation collects every failure before raising one
\* aggregate: one EINVALIDBRANCH per entry that is not a record whose name is a
\* string with a character other than white space, in the order of the entries,
\* then one EDUPLICATEBRANCHES exactly when a non-empty name occurs more than once,
\* listing each such name once, then one EINVALIDBRANCHNAME per entry whose name
\* is not a valid git reference ; nothing is raised when there is no failure.
C22_OneErrorPerEntryWithoutNonBlankName ==
  Validated =>
    /\ SelectSeq(errors, LAMBDA e : e.code = "EINVALIDBRANCH") =
         SelectSeq([k \in 1..Len(branches) |-> VerifyError("EINVALIDBRANCH", branches[k])],
                   LAMBDA e : e.detail.shape # "object"
                                \/ e.detail.name \in {Undefined, "", " "})
    /\ DuplicatesAndNamesReported

\* three entries with the invalid name test: give one EDUPLICATEBRANCHES that lists
\* the name once, followed by three EINVALIDBRANCHNAME
C22_Witness ==
  /\ pc = "threw"
  /\ Len(branches) = 3
  /\ \A i \in 1..3 : branches[i] = BranchEntry("object", "test:")
  /\ Len(thrown) = 4
  /\ thrown[1].code = "EDUPLICATEBRANCHES" /\ thrown[1].detail = <<"test:">>

(***************************************************************************)
(* C23                                                                     *)
(***************************************************************************)
\* the fourteen codes of the taxonomy
Taxonomy ==
  {"ENOGITREPO", "ENOREPOURL", "EGITNOPERMISSION", "EINVALIDTAGFORMAT",
   "ETAGNOVERSION", "EINVALIDBRANCH", "EDUPLICATEBRANCHES", "EINVALIDBRANCHNAME",
   "EMAINTENANCEBRANCH", "EMAINTENANCEBRANCHES", "ERELEASEBRANCHES",
   "EPRERELEASEBRANCH", "EINVALIDNEXTVERSION", "EINVALIDLTSMERGE"}

\* the codes of the errors raised
ThrownCodes == {thrown[i].code : i \in 1..Len(thrown)}

\* C23 as stated: every error raised by the validation of the branches, their
\* classification and the verification of the options carries one of the fourteen
\* codes of the taxonomy.
C23_CodesInTaxonomy == ThrownCodes \subseteq Taxonomy

\* the identifier of a prerelease branch: its name when prerelease is true
PrereleaseId(branch) ==
  IF branch.prerelease = "true" THEN branch.name ELSE branch.prerelease

\* the range of a maintenance branch: the one of its name when none is set
MaintenanceRange(branch) ==
  IF branch.range = Undefined THEN branch.name ELSE branch.range

\* the positions of the configured branches of each type
MaintenanceAt == {i \in 1..Len(branches) : branches[i].name \in {"1.x", "2.x"}}
PrereleaseAt == {i \in 1..Len(branches) \ MaintenanceAt : branches[i].prerelease # Undefined}
ReleaseAt == (1..Len(branches) \ MaintenanceAt) \ PrereleaseAt

\* C23 amended: every such error carries one of the fourteen codes or
\* EPRERELEASEBRANCHES, the code raised when two prerelease branches have the same
\* identifier ; each failing validator of each type yields its code:
\* E<TYPE>BRANCH for a branch, E<TYPE>BRANCHES for the set.
C23_CodesInTaxonomyOrPrereleaseSet ==
  /\ ThrownCodes \subseteq Taxonomy \cup {"EPRERELEASEBRANCHES"}
  /\ pc = "threw" => Len(thrown) > 0 /\ \A i \in 1..Len(thrown) : thrown[i].semanticRelease
  /\ pc \in {"verifyOptions", "threw", "findBranch"} /\ VerifyBranchesErrors(branches) = <<>> =>
       /\ "EPRERELEASEBRANCHES" \in ThrownCodes <=>
            \E i, j \in PrereleaseAt :
              i # j /\ PrereleaseId(branches[i]) = PrereleaseId(branches[j])
       /\ "EMAINTENANCEBRANCHES" \in ThrownCodes <=>
            \E i, j \in MaintenanceAt :
              i # j /\ MaintenanceRange(branches[i]) = MaintenanceRange(branches[j])
       /\ "ERELEASEBRANCHES" \in ThrownCodes <=> ReleaseAt = {}
       /\ "EMAINTENANCEBRANCH" \in ThrownCodes <=>
            \E i \in MaintenanceAt : branches[i].range \notin {Undefined, branches[i].name}
       /\ "EPRERELEASEBRANCH" \in ThrownCodes <=>
            \E i \in PrereleaseAt : branches[i].prerelease = ""

\* master with two prerelease branches of the identifier beta: the set validator of
\* the prerelease branches fails, and nothing else
C23_Witness ==
  /\ pc = "threw"
  /\ Len(branches) = 3
  /\ Len(thrown) = 1
  /\ thrown[1].code = "EPRERELEASEBRANCHES"
  /\ Len(thrown[1].detail) = 2

(***************************************************************************)
(* C24                                                                     *)
(***************************************************************************)
\* the version after a version without prerelease part, for a release type
Bumped(v, type) ==
  CASE type = "major" -> V(v.major + 1, 0, 0)
    [] type = "minor" -> V(v.major, v.minor + 1, 0)
    [] OTHER -> V(v.major, v.minor, v.patch + 1)

\* C24: on a branch that is not a prerelease branch the next version is the last
\* release's version incremented by the analysed type, and 1.0.0 when there is no
\* last release ; on a prerelease branch with no last release it is
\* 1.0.0-<prerelease>.0.
C24_NextVersionByType ==
  pc = "versioned" =>
    /\ Branch.type # "prerelease" /\ lastRelease # NoRelease =>
         nextRelease.version = Bumped(lastRelease.version, relType)
    /\ Branch.type # "prerelease" /\ lastRelease = NoRelease =>
         nextRelease.version = V(1, 0, 0)
    /\ Branch.type = "prerelease" /\ lastRelease = NoRelease =>
         nextRelease.version = VP(1, 0, 0, Branch.prerelease, 0)

\* a minor release after 1.2.3 on master: 1.3.0
C24_Witness ==
  /\ pc = "versioned"
  /\ Branch.name = "master"
  /\ lastRelease.version = V(1, 2, 3)
  /\ relType = "minor"
  /\ nextRelease.version = V(1, 3, 0)

(***************************************************************************)
(* C25                                                                     *)
(***************************************************************************)
\* C25: on a prerelease branch whose last release carries the identifier of the
\* branch, the next version is the last one with its prerelease counter
\* incremented by one, whatever the release type.
C25_PrereleaseCounterIncremented ==
  pc = "versioned" /\ Branch.type = "prerelease" /\ lastRelease # NoRelease
    /\ lastRelease.version.pre = Branch.prerelease =>
      nextRelease.version =
        [lastRelease.version EXCEPT !.prn = lastRelease.version.prn + 1]

\* a major release after 1.0.0-beta.1 on beta: 1.0.0-beta.2
C25_Witness ==
  /\ pc = "versioned"
  /\ Branch.name = "beta"
  /\ lastRelease.version = VP(1, 0, 0, "beta", 1)
  /\ relType = "major"
  /\ nextRelease.version = VP(1, 0, 0, "beta", 2)

(***************************************************************************)
(* C26                                                                     *)
(***************************************************************************)
\* the version without its prerelease part
Stable(v) == V(v.major, v.minor, v.patch)

\* C26: on a prerelease branch whose last release does not carry the identifier of
\* the branch, the next version is the last one bumped by the analysed type with
\* -<prerelease>.0 appended ; every next version computed on a prerelease branch
\* carries the identifier of the branch.
C26_PrereleaseIdentifierOfBranch ==
  pc = "versioned" /\ Branch.type = "prerelease" =>
    /\ nextRelease.version.pre = Branch.prerelease
    /\ lastRelease # NoRelease /\ lastRelease.version.pre # Branch.prerelease =>
         /\ nextRelease.version.prn = 0
         /\ ~Prerelease(lastRelease.version) =>
              Stable(nextRelease.version) = Bumped(lastRelease.version, relType)

\* C26 on the last releases without prerelease part: the next version is the last
\* one bumped by the analysed type with -<prerelease>.0 appended.
C26_AfterStableRelease ==
  pc = "versioned" /\ Branch.type = "prerelease" /\ lastRelease # NoRelease
    /\ ~Prerelease(lastRelease.version) =>
      /\ nextRelease.version.pre = Branch.prerelease
      /\ nextRelease.version.prn = 0
      /\ Stable(nextRelease.version) = Bumped(lastRelease.version, relType)

\* a patch release on beta after 1.0.0-alpha.1: the next version is 1.0.0-alpha.2
C26_Witness ==
  /\ pc = "versioned"
  /\ Branch.name = "beta"
  /\ lastRelease.version = VP(1, 0, 0, "alpha", 1)
  /\ relType = "patch"
  /\ nextRelease.version = VP(1, 0, 0, "alpha", 2)

(***************************************************************************)
(* C27                                                                     *)
(***************************************************************************)
\* the calls the plugins of a step received
CallsOf(step) == SelectSeq(calls, LAMBDA c : c.step = step)

\* whether the pipeline of a step has been run for the next release
StepRan(step) == \E i \in 1..Len(log) : log[i].op = step /\ log[i].rel = "next"

\* whether the pipeline of a step has been run and raised
StepFailed(step) ==
  \E i \in 1..Len(log) : log[i].op = step /\ log[i].rel = "next" /\ ~log[i].ok

\* the positions of the plugins of a step whose errors left run()
PluginsIn(errs, step) == {errs[i].plugin : i \in {j \in 1..Len(errs) : errs[j].step = step}}

\* C27: once the success step has run, each configured success plugin has been
\* called exactly once, in the configured order and with the releases the publish
\* step returned, whether or not an earlier one failed ; when one of them failed
\* the invocation fails, with the errors of the failing plugins, and otherwise it
\* returns true.
C27_AllSuccessPluginsCalled ==
  StepRan("success") =>
    /\ Len(CallsOf("success")) = plugins.success
    /\ \A k \in 1..Len(CallsOf("success")) :
         /\ CallsOf("success")[k].plugin = k
         /\ CallsOf("success")[k].releases = releases
    /\ Len(releases) = plugins.publish
    /\ IF StepFailed("success")
       THEN /\ pc = "threw" \/ (pc = "done" /\ result = "throw")
            /\ Len(thrown) > 0
            /\ \A i \in 1..Len(thrown) : thrown[i].step = "success"
       ELSE pc = "done" /\ result = "true"

\* the first of two success plugins failed, the second one was called all the same
\* and the invocation failed
C27_Witness ==
  /\ plugins.success = 2
  /\ StepFailed("success")
  /\ PluginsIn(thrown, "success") = {1}
  /\ Len(CallsOf("success")) = 2
  /\ CallsOf("success")[2].plugin = 2
  /\ Len(CallsOf("success")[2].releases) > 0
  /\ result = "throw"

(***************************************************************************)
(* C28                                                                     *)
(***************************************************************************)
\* the two verification steps
VerifySteps == {"verifyConditions", "verifyRelease"}

\* the steps of run() that come after a verification step
LaterSteps(step) ==
  IF step = "verifyConditions"
  THEN {"analyzeCommits", "verifyRelease", "generateNotes", "prepare", "tag", "push",
        "publish", "success"}
  ELSE {"generateNotes", "prepare", "tag", "push", "publish", "success"}

\* the elementary errors a call ended with, an aggregate counting for its elements
RaisedIn(call) ==
  CASE call.did = "rejects" ->
         <<[code |-> "EPLUGIN", semanticRelease |-> TRUE, step |-> call.step,
            plugin |-> call.plugin, part |-> 1]>>
    [] call.did = "rejectsAggregate" ->
         <<[code |-> "EPLUGIN", semanticRelease |-> FALSE, step |-> call.step,
            plugin |-> call.plugin, part |-> 1],
           [code |-> "EPLUGIN", semanticRelease |-> TRUE, step |-> call.step,
            plugin |-> call.plugin, part |-> 2]>>
    [] OTHER -> <<>>

\* the errors of the calls of a list, in the order of the calls
RECURSIVE RaisedInAll(_)
RaisedInAll(cs) ==
  IF cs = <<>> THEN <<>>
  ELSE RaisedInAll(SubSeq(cs, 1, Len(cs) - 1)) \o RaisedIn(cs[Len(cs)])

\* C28: once a verification step (verifyConditions, verifyRelease) has run, each
\* of its configured plugins has been called once, in the configured order, also
\* after a failure of an earlier one ; when a plugin failed, what leaves run() is
\* the list of the errors of all the failing plugins in the configured order, the
\* elements of an aggregate in the place of the aggregate, and no later step of the
\* pipeline is run.
C28_VerifyStepsCollectAllErrors ==
  \A step \in VerifySteps :
    StepRan(step) =>
      /\ Len(CallsOf(step)) = plugins[step]
      /\ \A k \in 1..Len(CallsOf(step)) : CallsOf(step)[k].plugin = k
      /\ StepFailed(step) <=> RaisedInAll(CallsOf(step)) # <<>>
      /\ StepFailed(step) =>
           /\ pc = "threw" \/ (pc = "done" /\ result = "throw")
           /\ thrown = RaisedInAll(CallsOf(step))
           /\ \A i \in 1..Len(log) : log[i].op \notin LaterSteps(step)
           /\ \A i \in 1..Len(calls) : calls[i].step \notin LaterSteps(step)
           /\ localTags = remoteTags /\ Cardinality(localTags) = 1

\* of the two verifyRelease plugins the first raised an aggregate of two errors and
\* the second an error: the three errors left run() in this order
C28_Witness ==
  /\ plugins.verifyRelease = 2
  /\ StepFailed("verifyRelease")
  /\ Len(CallsOf("verifyRelease")) = 2
  /\ CallsOf("verifyRelease")[1].did = "rejectsAggregate"
  /\ CallsOf("verifyRelease")[2].did = "rejects"
  /\ Len(thrown) = 3
  /\ thrown[1].plugin = 1 /\ thrown[2].plugin = 1 /\ thrown[3].plugin = 2
  /\ result = "throw"

(***************************************************************************)
(* C29                                                                     *)
(***************************************************************************)
\* the positions in calls of the calls of the generateNotes plugins
NotesCalls == {i \in 1..Len(calls) : calls[i].step = "generateNotes"}

\* the position of the call of the first plugin in the run of the i-th call
RunStart(i) == i - calls[i].plugin + 1

\* what the plugin of a call returned
OutputOf(call) ==
  IF call.did = "notes" THEN NotesOf(call.plugin, call.gitHead) ELSE Undefined

\* what the plugins of the calls a..b returned
OutputsBetween(a, b) == [j \in 1..(b - a + 1) |-> OutputOf(calls[a + j - 1])]

\* the texts of a list that are defined, with a blank line between two of them
RECURSIVE Joined(_)
Joined(texts) ==
  IF texts = <<>> THEN ""
  ELSE LET rest == Joined(Tail(texts))
       IN IF Head(texts) \in {Undefined, ""} THEN rest
          ELSE IF rest = "" THEN Head(texts)
          ELSE Head(texts) \o "\n\n" \o rest

\* two values of nextRelease.notes that hold the same text, no notes and the empty
\* text being the same
SameNotes(a, b) == (a \in {Undefined, ""} /\ b \in {Undefined, ""}) \/ a = b

\* the notes of nextRelease are what the last run of the generateNotes plugins
\* returned: the outputs in the configured order, joined by a blank line, the
\* undefined ones skipped
NotesAreJoinedOutputs ==
  (~dryRun /\ NotesCalls # {} /\ pc # "generateNotes") =>
    LET last == CHOOSE i \in NotesCalls : \A j \in NotesCalls : j <= i
    IN /\ calls[last].plugin = Len(plugins.generateNotes)
       /\ nextRelease.notes = Joined(OutputsBetween(RunStart(last), last))

\* C29 as stated: the notes are the joined outputs, and in every run of the step
\* the k-th plugin is called with the joined outputs of the plugins before it.
C29_NotesOfPluginsBefore ==
  /\ NotesAreJoinedOutputs
  /\ \A i \in NotesCalls :
       SameNotes(calls[i].notes, Joined(OutputsBetween(RunStart(i), i - 1)))

\* C29 amended: the notes produced by the generateNotes step are the outputs of the
\* configured plugins, in configured order, joined by a blank line, with undefined
\* outputs skipped ; the first plugin is called with the notes nextRelease has when
\* the step is called: none when run() calls the step, the notes generated before
\* when the step is called again after a commit of a prepare plugin ; the k-th
\* plugin is called with these notes followed by the joined outputs of the plugins
\* before it.
C29_NotesGivenThenPluginsBefore ==
  /\ NotesAreJoinedOutputs
  /\ \A i \in NotesCalls :
       /\ RunStart(i) \in NotesCalls
       /\ SameNotes(calls[i].notes,
                    Joined(<<calls[RunStart(i)].notes>>
                             \o OutputsBetween(RunStart(i), i - 1)))
       /\ calls[i].plugin = 1 =>
            IF \E j \in 1..(i - 1) : calls[j].step = "prepare"
            THEN /\ calls[i - 1].step = "prepare"
                 /\ calls[i - 1].did = "commits"
                 /\ calls[i].notes = calls[i - 1].notes
                 /\ calls[i].gitHead = calls[i - 1].gitHead + 1
            ELSE calls[i].notes = Undefined

\* two plugins that return notes, called again after the commit of a prepare
\* plugin: the first one is then given the notes generated before the commit
C29_Witness ==
  /\ plugins.generateNotes = <<"notes", "notes">>
  /\ Cardinality(NotesCalls) = 4
  /\ \E i \in NotesCalls :
       /\ calls[i].plugin = 1
       /\ calls[i].gitHead = InitialHead + 1
       /\ calls[i].notes = NotesOf(1, InitialHead) \o "\n\n" \o NotesOf(2, InitialHead)
       /\ calls[i + 1].notes = calls[i].notes \o "\n\n" \o NotesOf(1, InitialHead + 1)
  /\ nextRelease.notes =
       NotesOf(1, InitialHead + 1) \o "\n\n" \o NotesOf(2, InitialHead + 1)

(***************************************************************************)
(* C30                                                                     *)
(***************************************************************************)
\* the positions in calls of the calls of the plugins of a step
CallsAt(step) == {i \in 1..Len(calls) : calls[i].step = step}

\* the calls of the prepare plugins that created a commit, up to position i
CommitsUpTo(i) == {j \in CallsAt("prepare") : j <= i /\ calls[j].did = "commits"}

\* HEAD after the i-th call: a commit more for each prepare plugin that committed
HeadAfter(i) == InitialHead + Cardinality(CommitsUpTo(i))

\* the notes generated by the run of the generateNotes plugins that ends right
\* before the i-th call
NotesGeneratedBefore(i) ==
  Joined(OutputsBetween(i - Len(plugins.generateNotes), i - 1))

\* the i-th call follows a run of the generateNotes plugins on the commit c
FollowsGenerationOn(i, c) ==
  /\ i > Len(plugins.generateNotes)
  /\ \A j \in (i - Len(plugins.generateNotes))..(i - 1) :
       /\ calls[j].step = "generateNotes"
       /\ calls[j].plugin = j - (i - Len(plugins.generateNotes)) + 1
       /\ calls[j].gitHead = c

\* C30: a prepare plugin that follows one that created a commit is called with
\* nextRelease.gitHead equal to the new HEAD and with notes generated after that
\* commit ; every publish plugin is called with the HEAD left by the last prepare
\* plugin and, when a prepare plugin created a commit, with the notes generated
\* after the last such commit ; the tag of the release, created and pushed, is on
\* the HEAD left by the last prepare plugin.
C30_NewHeadAndNotesAfterCommit ==
  /\ \A i \in CallsAt("prepare") :
       /\ calls[i].gitHead = HeadAfter(i - 1)
       /\ (i - 1 \in CallsAt("generateNotes") /\ CommitsUpTo(i) # {}) =>
            /\ FollowsGenerationOn(i, HeadAfter(i - 1))
            /\ calls[i].notes = NotesGeneratedBefore(i)
       /\ (calls[i].did = "commits" /\ i < Len(calls)) =>
            /\ FollowsGenerationOn(i + 1 + Len(plugins.generateNotes), HeadAfter(i))
            /\ i + 1 + Len(plugins.generateNotes) <= Len(calls) =>
                 /\ calls[i + 1 + Len(plugins.generateNotes)].step \in {"prepare", "publish"}
                 /\ calls[i + 1 + Len(plugins.generateNotes)].gitHead = HeadAfter(i)
                 /\ calls[i + 1 + Len(plugins.generateNotes)].notes =
                      NotesGeneratedBefore(i + 1 + Len(plugins.generateNotes))
  /\ \A i \in CallsAt("publish") :
       /\ calls[i].gitHead = HeadAfter(Len(calls))
       /\ calls[i].gitHead = head
       /\ calls[i].notes = nextRelease.notes
       /\ CommitsUpTo(Len(calls)) # {} =>
            \E j \in CallsAt("generateNotes") :
              /\ FollowsGenerationOn(j + 1, head)
              /\ calls[i].notes = NotesGeneratedBefore(j + 1)
  /\ \A t \in localTags \cup remoteTags :
       t.gitTag = nextRelease.gitTag =>
         /\ t.gitHead = HeadAfter(Len(calls))
         /\ t.gitHead = nextRelease.gitHead
  /\ CallsAt("publish") # {} =>
       [gitTag |-> nextRelease.gitTag, gitHead |-> HeadAfter(Len(calls))] \in remoteTags

\* the first of two prepare plugins created a commit: the second one and the
\* publish plugin were called with the new HEAD and with the notes of the new
\* HEAD, and the tag pushed is on the new HEAD
C30_Witness ==
  /\ plugins.prepare = 2
  /\ plugins.generateNotes = <<"notes">>
  /\ \E i \in CallsAt("prepare"), j \in CallsAt("prepare"), p \in CallsAt("publish") :
       /\ calls[i].plugin = 1 /\ calls[i].did = "commits"
       /\ calls[i].gitHead = InitialHead
       /\ calls[i].notes = NotesOf(1, InitialHead)
       /\ calls[j].plugin = 2 /\ calls[j].did = "resolves"
       /\ calls[j].gitHead = InitialHead + 1
       /\ calls[j].notes = NotesOf(1, InitialHead + 1)
       /\ calls[p].gitHead = InitialHead + 1
       /\ calls[p].notes = NotesOf(1, InitialHead + 1)
  /\ [gitTag |-> nextRelease.gitTag, gitHead |-> InitialHead + 1] \in remoteTags

(***************************************************************************)
(* C31                                                                     *)
(***************************************************************************)
\* the URL to push to has been computed
AuthUrlComputed == pc = "verifyAuth" /\ Len(log) = 1 /\ log[1].op = "getGitAuthUrl"

\* the positions of the credential variables that hold credentials
HoldCredentials == {i \in 1..Len(GIT_TOKENS) : env[GIT_TOKENS[i]] \notin {Undefined, ""}}

\* the URL given, after the expansion of a shorthand and without the prefix git+
GivenUrl == NormalizeUrl(log[1].repositoryUrl)

\* http(s)://<prefix><token>@host/path for the credential variable at position i
UrlWithToken(i) ==
  (IF GivenUrl.form = "http" THEN "http" ELSE "https") \o "://"
    \o (CASE i \in {4, 5} -> "gitlab-ci-token:" [] i \in {6, 7} -> "x-token-auth:"
          [] OTHER -> "")
    \o env[GIT_TOKENS[i]] \o "@" \o GivenUrl.host \o "/" \o GivenUrl.path

\* C31: when the push test fails on the normalised URL, the URL returned is
\* http(s)://<prefix><token>@host/path for the first of the seven variables, in
\* the priority order, that holds credentials, and the normalised URL unchanged
\* when none of them holds credentials.
C31_UrlOfFirstCredentials ==
  (AuthUrlComputed /\ ~log[1].ok) =>
    IF HoldCredentials # {}
    THEN config.repositoryUrl =
           UrlWithToken(CHOOSE i \in HoldCredentials : \A j \in HoldCredentials : i <= j)
    ELSE config.repositoryUrl = UrlText(GivenUrl)

\* C31 in the environments where no credential variable is set to the empty text
C31_WithoutEmptyVariables ==
  (AuthUrlComputed /\ ~log[1].ok /\ \A v \in DOMAIN env : env[v] # "") =>
    IF HoldCredentials # {}
    THEN config.repositoryUrl =
           UrlWithToken(CHOOSE i \in HoldCredentials : \A j \in HoldCredentials : i <= j)
    ELSE config.repositoryUrl = UrlText(GivenUrl)

\* GIT_CREDENTIALS is set to the empty text and GH_TOKEN holds a token: the URL
\* is returned without the token
C31_Witness ==
  /\ AuthUrlComputed /\ ~log[1].ok
  /\ env["GIT_CREDENTIALS"] = ""
  /\ env["GH_TOKEN"] = "token-of-GH_TOKEN"
  /\ log[1].repositoryUrl = RepositoryUrl("ssh", "host.null", "owner/repo.git")
  /\ config.repositoryUrl = "git@host.null:owner/repo.git"

(***************************************************************************)
(* C32                                                                     *)
(***************************************************************************)
\* C32: when the push test passes on the normalised URL, the URL returned is the
\* normalised URL, without credentials, whatever the credential variables hold.
C32_NoCredentialsWhenPushAllowed ==
  (AuthUrlComputed /\ log[1].ok) => config.repositoryUrl = UrlText(GivenUrl)

\* the push is allowed and GIT_CREDENTIALS holds credentials: the URL is the one
\* given
C32_Witness ==
  /\ AuthUrlComputed /\ log[1].ok
  /\ env["GIT_CREDENTIALS"] = "token-of-GIT_CREDENTIALS"
  /\ log[1].repositoryUrl = RepositoryUrl("https", "host.null", "owner/repo.git")
  /\ config.repositoryUrl = "https://host.null/owner/repo.git"

\* the writes of the history
Writes == {i \in DOMAIN log : log[i].op \in {"write", "logError"}}

\* whether the hook was installed when the i-th event of the history happened
HookedAt(i) == Hooked(SubSeq(log, 1, i - 1))

\* the values to replace: the non-empty values of the variables with such a name
SecretValues == {env[envVar] : envVar \in {n \in DOMAIN env : SensitiveName(n) /\ env[n] # ""}}

\* C33 (replacement): every write made while the filter is installed reaches the
\* stream with each non-empty value of a variable whose name matches token,
\* password, credential, secret or private replaced by '[secure]'.
C33_SecretsReplacedWhileInstalled ==
  \A i \in Writes :
    HookedAt(i) =>
      \A j \in DOMAIN log[i].text :
        log[i].text[j] = IF log[i].said[j] \in SecretValues THEN "[secure]"
                         ELSE log[i].said[j]

\* C33 (installation): the filter is installed before the configuration is loaded
\* and before the first plugin call, and it is removed exactly once when the
\* invocation completes, whatever the way it completes.
C33_InstalledThenRemovedOnce ==
  /\ \A i \in DOMAIN log : log[i].op = "getConfig" => HookedAt(i)
  /\ calls # <<>> => \E i \in DOMAIN log : log[i].op = "hook"
  /\ Cardinality({i \in DOMAIN log : log[i].op = "unhook"}) = IF pc = "done" THEN 1 ELSE 0

\* a plugin printed a secret value while the filter was installed
C33_Witness ==
  \E i \in Writes : HookedAt(i) /\ \E j \in DOMAIN log[i].said : log[i].said[j] = "secret token"

\* the positions of the calls of the fail plugins, in the order of the calls
FailCallsMade == SelectSeq(calls, LAMBDA c : c.step = "fail")

\* the errors that were logged
LoggedErrors == {log[i].error : i \in {j \in DOMAIN log : log[j].op = "logError"}}

\* the errors of the error that left the run, none before the run raised
ThrownErrors == IF pc \in {"catch", "logErrors", "done"} /\ result # "true"
                   /\ result \notin {"undefined", "false"}
                THEN {ExtractErrors(thrown)[i] : i \in DOMAIN ExtractErrors(thrown)}
                ELSE {}

\* C39: once the fail step is called, every configured fail plugin is called, in
\* order, even after one of them raised ; what they raise is logged ; and the
\* invocation ends by raising the error of the run, never an error of a fail plugin.
C39_FailPluginsAllCalledErrorsLogged ==
  /\ FailCallsMade # <<>> =>
       /\ Len(FailCallsMade) = plugins.fail
       /\ \A k \in 1..plugins.fail : FailCallsMade[k].plugin = k
       /\ \A k \in 1..plugins.fail :
            FailCallsMade[k].did = "rejects" =>
              PluginError("fail", k, 1, FALSE) \in LoggedErrors
       /\ pc = "done" => result = "throw"
  /\ \A err \in ThrownErrors : err.step # "fail"

\* the first of two fail plugins raised, and the invocation has ended
C39_Witness ==
  /\ pc = "done"
  /\ Len(FailCallsMade) = 2
  /\ FailCallsMade[1].did = "rejects"
  /\ FailCallsMade[2].did = "resolves"

\* whether the error that ended the invocation was raised while the configuration
\* was loaded
ConfigFailed == ThrownErrors # {} /\ \A err \in ThrownErrors : err.step \in ConfigStages

\* C40: when getConfig raises, no plugin is called, fail included, whatever the
\* class of the error and the dry-run option, and the invocation ends by raising
\* that error after it was logged.
C40_ConfigErrorLoggedNoPlugin ==
  ConfigFailed =>
    /\ calls = <<>>
    /\ failCalls = <<>>
    /\ pc = "done" => result = "throw" /\ ThrownErrors \subseteq LoggedErrors

\* getConfig raised errors of the semanticRelease class outside a dry-run, and the
\* invocation has ended
C40_Witness ==
  /\ pc = "done"
  /\ ConfigFailed
  /\ ~dryRun
  /\ \E err \in ThrownErrors : err.semanticRelease

\* the plugin steps of the history
PluginEvents ==
  {i \in DOMAIN log : log[i].op \in {"verifyConditions", "analyzeCommits", "verifyRelease",
                                      "generateNotes", "addChannel", "prepare",
                                      "publish", "success", "fail"}}

\* whether an environment is the one git needs, given the one the run started in
EnvironmentOfGit(before, after) ==
  /\ DOMAIN after = DOMAIN before \cup
       {"GIT_AUTHOR_NAME", "GIT_AUTHOR_EMAIL", "GIT_COMMITTER_NAME",
        "GIT_COMMITTER_EMAIL", "GIT_ASKPASS", "GIT_TERMINAL_PROMPT"}
  /\ \A n \in {"GIT_AUTHOR_NAME", "GIT_COMMITTER_NAME"} :
       after[n] = IF n \in DOMAIN before THEN before[n] ELSE "COMMIT_NAME"
  /\ \A n \in {"GIT_AUTHOR_EMAIL", "GIT_COMMITTER_EMAIL"} :
       after[n] = IF n \in DOMAIN before THEN before[n] ELSE "COMMIT_EMAIL"
  /\ after["GIT_ASKPASS"] = "echo"
  /\ after["GIT_TERMINAL_PROMPT"] = "0"
  /\ \A n \in DOMAIN before :
       n \notin {"GIT_AUTHOR_NAME", "GIT_AUTHOR_EMAIL", "GIT_COMMITTER_NAME",
                 "GIT_COMMITTER_EMAIL", "GIT_ASKPASS", "GIT_TERMINAL_PROMPT"}
         => after[n] = before[n]

\* C34: in CI the first step of run() gives the four identity variables their
\* constant unless they were set, sets GIT_ASKPASS to echo and GIT_TERMINAL_PROMPT
\* to 0 whatever they were, and leaves the other variables alone ; no later step
\* changes the environment, and no plugin is called before that first step.
C34_EnvironmentOfGitInCi ==
  [][/\ (isCi /\ pc = "gate") => EnvironmentOfGit(env, env')
     /\ (isCi /\ pc # "gate") => env' = env
     /\ (isCi /\ pc = "gate") => PluginEvents = {}]_vars

\* in CI a plugin step ran in an environment that had its own author name and its
\* own GIT_ASKPASS
C34_Witness ==
  /\ isCi
  /\ PluginEvents # {}
  /\ "HOME" \in DOMAIN env
  /\ env["GIT_AUTHOR_NAME"] = "mine"
  /\ env["GIT_COMMITTER_NAME"] = "COMMIT_NAME"
  /\ env["GIT_ASKPASS"] = "echo"
  /\ env["HOME"] = "mine"

\* the versions of the releases to add, in the order of the list
VersionsInOrder == [i \in DOMAIN releasesToAdd |-> releasesToAdd[i].nextRelease.version]

\* the versions of the back-port tags that were created, in the order of creation
BackPortTagged ==
  LET made == SelectSeq(log, LAMBDA e : e.op = "tag" /\ e.rel = "add" /\ e.ok)
  IN [i \in DOMAIN made |-> made[i].version]

\* whether a list of versions never goes down
Ascending(versions) ==
  \A i, j \in DOMAIN versions : i < j => SemverCompare(versions[i], versions[j]) <= 0

\* C35: the releases-to-add list as a whole is in ascending version order, and the
\* back-port tags are created in that order.
C35_AscendingAsAWhole == Ascending(VersionsInOrder) /\ Ascending(BackPortTagged)

\* what holds instead: the entries that come from one higher branch are in
\* ascending order
C35_AscendingWithinHigherBranch ==
  \A i, j \in DOMAIN releasesToAdd :
    (i < j /\ releasesToAdd[i].currentRelease.channel = releasesToAdd[j].currentRelease.channel)
      => SemverLt(VersionsInOrder[i], VersionsInOrder[j])

\* two back-port tags were created, the higher version first
C35_Witness ==
  /\ Len(BackPortTagged) = 2
  /\ SemverLt(BackPortTagged[2], BackPortTagged[1])

\* the channels of the branches ranked strictly higher than the active branch that
\* are not prerelease branches
HigherReleaseChannels ==
  {branches[i].channel :
     i \in {j \in DOMAIN branches : j > FindIndex(branches, ciBranch)
                                     /\ branches[j].type # "prerelease"}}

\* the tags of the active branch an entry may have been built from: the ones with
\* the tag name and the channel of its currentRelease
SourceTags(entry) ==
  {i \in DOMAIN Branch.tags :
     /\ Branch.tags[i].gitTag = entry.currentRelease.gitTag
     /\ Branch.tags[i].channel = entry.currentRelease.channel
     /\ Branch.tags[i].version = entry.currentRelease.version}

\* C36: the channel of the currentRelease of every entry is the channel of a
\* branch ranked strictly higher than the active branch that is not a prerelease
\* branch, the entry comes from a tag of the active branch on that channel, and a
\* tag on another channel (of a prerelease branch, of a lower branch, of the
\* active branch) gives no entry.
C36_EntriesFromHigherReleaseBranches ==
  \A i \in DOMAIN releasesToAdd :
    /\ releasesToAdd[i].currentRelease.channel \in HigherReleaseChannels
    /\ SourceTags(releasesToAdd[i]) # {}
    /\ \A t \in DOMAIN Branch.tags :
         Branch.tags[t].channel \notin HigherReleaseChannels =>
           releasesToAdd[i].currentRelease.gitTag # Branch.tags[t].gitTag

\* on master the tag of next gave an entry and the tag of beta gave none
C36_Witness ==
  /\ ciBranch = "master"
  /\ Len(releasesToAdd) = 1
  /\ releasesToAdd[1].currentRelease.channel = "next"
  /\ \E t \in DOMAIN Branch.tags : Branch.tags[t].channel = "beta"

\* the tags of the active branch with a version strictly lower than v
LowerTags(v) == {i \in DOMAIN Branch.tags : SemverLt(Branch.tags[i].version, v)}

\* among them, the ones getLastRelease looks at: prerelease versions only on a
\* prerelease branch
LowerReleaseTags(v) ==
  {i \in LowerTags(v) : Branch.type = "prerelease" \/ ~Prerelease(Branch.tags[i].version)}

\* whether a last release is the highest of the tags `among` of the active branch,
\* or empty when there is none
HighestAmong(last, among) ==
  IF among = {} THEN last.version = NoVersion
  ELSE \E i \in among :
         /\ \A j \in among :
              SemverCompare(Branch.tags[i].version, Branch.tags[j].version) >= 0
         /\ last.version = Branch.tags[i].version
         /\ last.gitTag = Branch.tags[i].gitTag
         /\ last.gitHead = Branch.tags[i].gitHead
         /\ last.channel = Branch.tags[i].channel

\* what C37 says of an entry besides its last release: the two releases agree on
\* version, gitHead and type, the next one is on the channel of the active branch
\* with the tag of that version and channel, and the type is the difference from
\* the last release, major when there is none
EntryShape(entry) ==
  /\ entry.currentRelease.version = entry.nextRelease.version
  /\ entry.currentRelease.gitHead = entry.nextRelease.gitHead
  /\ entry.currentRelease.type = entry.nextRelease.type
  /\ entry.nextRelease.channel = Branch.channel
  /\ entry.nextRelease.gitTag = [v |-> entry.nextRelease.version, c |-> Branch.channel]
  /\ entry.lastRelease.version # NoVersion =>
       SemverLt(entry.lastRelease.version, entry.nextRelease.version)
  /\ entry.nextRelease.type =
       IF entry.lastRelease.version = NoVersion THEN "major"
       ELSE CASE entry.lastRelease.version.major # entry.nextRelease.version.major -> "major"
              [] entry.lastRelease.version.minor # entry.nextRelease.version.minor -> "minor"
              [] OTHER -> "patch"

\* C37 as stated: in every entry the shape above holds and lastRelease is the
\* highest tag of the active branch with a version strictly lower than the
\* version of the entry, empty when there is none.
C37_LastReleaseHighestLowerTag ==
  \A i \in DOMAIN releasesToAdd :
    /\ EntryShape(releasesToAdd[i])
    /\ HighestAmong(releasesToAdd[i].lastRelease,
                    LowerTags(releasesToAdd[i].nextRelease.version))

\* C37 amended: in every entry the shape above holds and lastRelease is the
\* highest tag of the active branch with a version strictly lower than the
\* version of the entry, prerelease versions being left out unless the active
\* branch is a prerelease branch, empty when there is none.
C37_LastReleaseHighestLowerReleaseTag ==
  \A i \in DOMAIN releasesToAdd :
    /\ EntryShape(releasesToAdd[i])
    /\ HighestAmong(releasesToAdd[i].lastRelease,
                    LowerReleaseTags(releasesToAdd[i].nextRelease.version))

\* on master 2.0.0 of next is to be added after the prerelease 2.0.0-beta.1, and
\* its last release is empty
C37_Witness ==
  /\ Len(releasesToAdd) = 1
  /\ releasesToAdd[1].lastRelease.version = NoVersion
  /\ LowerTags(releasesToAdd[1].nextRelease.version) # {}

\* the tags of the active branch getLastRelease chooses from: prerelease versions
\* only on a prerelease branch, and below the bound when there is one
Qualifying(bounded, bound) ==
  {i \in DOMAIN Branch.tags :
     /\ Branch.type = "prerelease" \/ Branch.tags[i].version.pre = ""
     /\ bounded => SemverCompare(Branch.tags[i].version, bound) < 0}

\* whether `last` is the last release among the qualifying tags: a tag of the
\* highest version, whatever its channel, or the empty record
IsLastRelease(last, bounded, bound) ==
  IF Qualifying(bounded, bound) = {} THEN last = NoRelease
  ELSE \E i \in Qualifying(bounded, bound) :
         /\ \A j \in Qualifying(bounded, bound) :
              SemverCompare(Branch.tags[i].version, Branch.tags[j].version) >= 0
         /\ last = [version |-> Branch.tags[i].version, gitTag |-> Branch.tags[i].gitTag,
                    gitHead |-> Branch.tags[i].gitHead,
                    channel |-> Branch.tags[i].channel,
                    name |-> [v |-> Branch.tags[i].version, c |-> Undefined]]

\* C38: the last release computed for the next release is the tag of the highest
\* version among the tags of the branch on any channel, prerelease versions left
\* out unless the branch is a prerelease branch, and the one computed for a
\* release to add is that tag among the versions strictly lower than the version
\* to add ; it is the empty record when no tag qualifies.
C38_LastReleaseIsHighestQualifyingTag ==
  [][/\ (pc = "eachRelease" /\ pc' = "analyzeCommits")
          => IsLastRelease(lastRelease', FALSE, NoVersion)
     /\ \A i \in DOMAIN releasesToAdd' :
          IsLastRelease(releasesToAdd'[i].lastRelease, TRUE,
                        releasesToAdd'[i].nextRelease.version)]_vars

\* the last release of master is 1.0.0 although the branch has a tag of a higher
\* prerelease version
C38_Witness ==
  /\ pc = "analyzeCommits"
  /\ ciBranch = "master"
  /\ lastRelease.version = V(1, 0, 0)
  /\ \E i \in DOMAIN Branch.tags : Branch.tags[i].version.pre # ""

====
